---------------------------- MODULE Spec2Model ----------------------------
(***************************************************************************)
(* A model of the Deribit snapshot collector (src/data/deribit_rest_30m.py)*)
(* and of the normalisation / quality-control chain (src/data/normalize.py,*)
(* src/data/cleaning.py).                                                   *)
(*                                                                          *)
(* Conventions.                                                             *)
(*   - An optional Python value is a tuple: << >> is None / NaN, <<v>> is   *)
(*     the value v.                                                         *)
(*   - A call that may raise returns [raised |-> BOOLEAN, ...].             *)
(*   - Strings are TLA+ strings; characters are one-character strings.      *)
(*     The identifiers of the model are written over A-Z, a-z, 0-9, "." and *)
(*     "-" (no whitespace, sign, exponent, underscore or non-ASCII digit).  *)
(*   - A time is a number of ticks since an epoch that is the top of an     *)
(*     hour; SubSec ticks make one second.                                  *)
(***************************************************************************)
EXTENDS Integers, Sequences, FiniteSets, TLC

VARIABLES
    \* ---- the collector process (main / run_loop / snapshot_once) ----
    mode,          \* "once" | "loop" (--once) | "idle" (harness specifications)
    cfg,           \* the Config record
    pc,            \* where the main coroutine stands
    now,           \* the wall clock, in ticks
    next_slot,     \* run_loop's next_slot
    cycle,         \* number of cycles started
    curIdx,        \* snapshot_once: index of the currency being listed
    listFailed,    \* currencies whose listing raised in this cycle
    listed,        \* per currency: "pending" | "failed" | the listing returned
    instruments,   \* snapshot_once: the (currency, instrument_name) list
    \* ---- gather_order_books ----
    sem,           \* free permits of the asyncio.Semaphore
    ntasks,        \* tasks created so far
    wpc,           \* per task: "none" | "acquire" | "fetching" | "backoff" | "done"
    retry_count,   \* per task: worker's retry_count
    attempts,      \* per task: the outcomes of its fetches, "ok" | "raised"
    rows,          \* gather_order_books' rows
    slot_time,     \* gather_order_books' slot_time
    \* ---- after the batch ----
    df_raw,        \* the data frame snapshot_once returned
    written,       \* what write_outputs has written
    \* ---- harness of the pure functions ----
    arg,           \* the call's arguments
    ret            \* the call's result, or Pending

progVars == << mode, cfg, pc, now, next_slot, cycle, curIdx, listFailed, listed,
               instruments, sem, ntasks, wpc, retry_count, attempts,
               rows, slot_time, df_raw, written >>
fnVars == << arg, ret >>
vars == << mode, cfg, pc, now, next_slot, cycle, curIdx, listFailed, listed,
           instruments, sem, ntasks, wpc, retry_count, attempts,
           rows, slot_time, df_raw, written, arg, ret >>

None == << >>
Some(v) == << v >>
IsNone(x) == x = << >>
Val(x) == x[1]

Pending == [pending |-> TRUE]

\* F(v), with v evaluated once before F uses it.
Eval(v, F(_)) == CHOOSE r \in {F(x) : x \in {v}} : TRUE

(***************************************************************************)
(* Characters and strings                                                   *)
(***************************************************************************)
Digits == {"0", "1", "2", "3", "4", "5", "6", "7", "8", "9"}
Upper == {"A", "B", "C", "D", "E", "F", "G", "H", "I", "J", "K", "L", "M",
          "N", "O", "P", "Q", "R", "S", "T", "U", "V", "W", "X", "Y", "Z"}

Char(s, i) == SubSeq(s, i, i)

AllIn(s, class) == \A i \in 1..Len(s) : Char(s, i) \in class

\* Code-point order of the model's alphabet (ASCII).
Alphabet == "-.0123456789ABCDEFGHIJKLMNOPQRSTUVWXYZabcdefghijklmnopqrstuvwxyz"
Ord(c) == CHOOSE i \in 1..Len(Alphabet) : Char(Alphabet, i) = c

\* Python's str < str: by code point, a proper prefix first.
RECURSIVE StrLess(_, _)
StrLess(a, b) ==
    IF Len(b) = 0 THEN FALSE
    ELSE IF Len(a) = 0 THEN TRUE
    ELSE IF Char(a, 1) = Char(b, 1) THEN StrLess(Tail(a), Tail(b))
    ELSE Ord(Char(a, 1)) < Ord(Char(b, 1))

\* s.split(sep) for a one-character sep.
RECURSIVE SplitFrom(_, _, _, _)
SplitFrom(s, sep, i, cur) ==
    IF i > Len(s) THEN << cur >>
    ELSE IF Char(s, i) = sep THEN << cur >> \o SplitFrom(s, sep, i + 1, "")
    ELSE SplitFrom(s, sep, i + 1, cur \o Char(s, i))
Split(s, sep) == SplitFrom(s, sep, 1, "")

DigitVal(c) == Ord(c) - Ord("0")

\* int(s) for s matching \d+
RECURSIVE StrToNat(_)
StrToNat(s) ==
    IF Len(s) = 0 THEN 0
    ELSE 10 * StrToNat(SubSeq(s, 1, Len(s) - 1)) + DigitVal(Char(s, Len(s)))

DigitStr(d) == Char("0123456789", d + 1)

\* f"{n:0{w}d}"
RECURSIVE NatToStr(_)
NatToStr(n) == IF n < 10 THEN DigitStr(n) ELSE NatToStr(n \div 10) \o DigitStr(n % 10)
RECURSIVE PadZero(_, _)
PadZero(s, w) == IF Len(s) >= w THEN s ELSE PadZero("0" \o s, w)
FmtInt(n, w) == PadZero(NatToStr(n), w)

(***************************************************************************)
(* A float read from a decimal literal is the pair [m, e] standing for      *)
(* m / 10^e, with no trailing zero in the fraction.                         *)
(***************************************************************************)
RECURSIVE NormFloat(_, _)
NormFloat(m, e) == IF e > 0 /\ m % 10 = 0 THEN NormFloat(m \div 10, e - 1)
                   ELSE [m |-> m, e |-> e]

\* float(s): digits with at most one ".", at least one digit; anything else
\* raises ValueError.
PyFloat(s) ==
    LET p == Split(s, ".") IN
    IF /\ Len(p) \in {1, 2}
       /\ \A i \in 1..Len(p) : AllIn(p[i], Digits)
       /\ \E i \in 1..Len(p) : Len(p[i]) > 0
    THEN [raised |-> FALSE,
          value |-> IF Len(p) = 1 THEN NormFloat(StrToNat(p[1]), 0)
                    ELSE NormFloat(StrToNat(p[1] \o p[2]), Len(p[2]))]
    ELSE [raised |-> TRUE, exc |-> "ValueError"]

(***************************************************************************)
(* deribit_rest_30m.py: MONTHS, parse_expiry_code                           *)
(***************************************************************************)
MonthNames == << "JAN", "FEB", "MAR", "APR", "MAY", "JUN",
                 "JUL", "AUG", "SEP", "OCT", "NOV", "DEC" >>
\* MONTHS.get(name): the month number, or None
MonthsGet(name) ==
    IF \E i \in 1..12 : MonthNames[i] = name
    THEN Some(CHOOSE i \in 1..12 : MonthNames[i] = name)
    ELSE None

\* datetime(year, mon, day, ...) raises ValueError unless the day exists.
DaysInMonth(year, mon) ==
    IF mon = 2
    THEN (IF year % 4 = 0 /\ (year % 100 # 0 \/ year % 400 = 0) THEN 29 ELSE 28)
    ELSE IF mon \in {4, 6, 9, 11} THEN 30 ELSE 31

\* re.fullmatch(r"(\d{1,2})([A-Z]{3})(\d{2})", code): the groups, or None
ExpiryMatch(code) ==
    LET n == Len(code) - 5 IN
    IF /\ n \in {1, 2}
       /\ AllIn(SubSeq(code, 1, n), Digits)
       /\ AllIn(SubSeq(code, n + 1, n + 3), Upper)
       /\ AllIn(SubSeq(code, n + 4, n + 5), Digits)
    THEN Some([day |-> SubSeq(code, 1, n),
               mon |-> SubSeq(code, n + 1, n + 3),
               year |-> SubSeq(code, n + 4, n + 5)])
    ELSE None

\* A datetime at 08:00:00Z is kept as its date [year, mon, day].
parse_expiry_code(code) ==
    LET m == ExpiryMatch(code) IN
    IF IsNone(m) THEN [raised |-> FALSE, value |-> None]
    ELSE LET day == StrToNat(Val(m).day)
             mon == MonthsGet(Val(m).mon)
             year == 2000 + StrToNat(Val(m).year)
         IN IF IsNone(mon) THEN [raised |-> FALSE, value |-> None]
            ELSE IF day >= 1 /\ day <= DaysInMonth(year, Val(mon))
                 THEN [raised |-> FALSE,
                       value |-> Some([year |-> year, mon |-> Val(mon), day |-> day])]
                 ELSE [raised |-> TRUE, exc |-> "ValueError"]

(***************************************************************************)
(* normalize.py: _DERIBIT_OPT, _DERIBIT_FUT, _MON_MAP, parse_instrument_name*)
(***************************************************************************)
UnderlyingClass == Upper \cup Digits

\* \d+(?:\.\d+)*
StrikeMatch(s) ==
    LET p == Split(s, ".") IN \A i \in 1..Len(p) : Len(p[i]) > 0 /\ AllIn(p[i], Digits)

\* _DERIBIT_OPT.match(name): no class of the pattern holds "-", so a match is
\* a split in four parts, each matching its group.
DeribitOptMatch(name) ==
    LET p == Split(name, "-") IN
    IF /\ Len(p) = 4
       /\ Len(p[1]) > 0 /\ AllIn(p[1], UnderlyingClass)
       /\ ~IsNone(ExpiryMatch(p[2]))
       /\ StrikeMatch(p[3])
       /\ p[4] \in {"C", "P"}
    THEN Some([underlying |-> p[1], exp |-> Val(ExpiryMatch(p[2])),
               strike |-> p[3], opt |-> p[4]])
    ELSE None

DeribitFutMatch(name) ==
    LET p == Split(name, "-") IN
    IF /\ Len(p) = 2
       /\ Len(p[1]) > 0 /\ AllIn(p[1], UnderlyingClass)
       /\ ~IsNone(ExpiryMatch(p[2]))
    THEN Some([underlying |-> p[1], exp |-> Val(ExpiryMatch(p[2]))])
    ELSE None

\* _MON_MAP[d["mon"].upper()] raises KeyError for a name that is no month;
\* the maturity is formatted, never validated as a date.
Maturity(exp) ==
    FmtInt(2000 + StrToNat(exp.year), 4) \o "-" \o FmtInt(Val(MonthsGet(exp.mon)), 2)
        \o "-" \o FmtInt(StrToNat(exp.day), 2)

ParsedInstrument(kind, underlying, maturity, option_type, strike) ==
    [kind |-> kind, underlying |-> underlying, maturity |-> maturity,
     option_type |-> option_type, strike |-> strike]

parse_instrument_name(name) ==
    LET mo == DeribitOptMatch(name)
        mf == DeribitFutMatch(name)
    IN IF ~IsNone(mo)
       THEN IF IsNone(MonthsGet(Val(mo).exp.mon))
            THEN [raised |-> TRUE, exc |-> "KeyError"]
            ELSE IF PyFloat(Val(mo).strike).raised
            THEN [raised |-> TRUE, exc |-> "ValueError"]
            ELSE [raised |-> FALSE,
                  value |-> ParsedInstrument("option", Val(mo).underlying,
                                Maturity(Val(mo).exp), Some(Val(mo).opt),
                                Some(PyFloat(Val(mo).strike).value))]
       ELSE IF ~IsNone(mf)
       THEN IF IsNone(MonthsGet(Val(mf).exp.mon))
            THEN [raised |-> TRUE, exc |-> "KeyError"]
            ELSE [raised |-> FALSE,
                  value |-> ParsedInstrument("future", Val(mf).underlying,
                                Maturity(Val(mf).exp), None, None)]
       ELSE [raised |-> FALSE,
             value |-> ParsedInstrument("unknown", "", "", None, None)]

(***************************************************************************)
(* The state of the collector while a harness specification runs.           *)
(***************************************************************************)
ProgIdle ==
    /\ mode = "idle"
    /\ cfg = << >>
    /\ pc = "idle"
    /\ now = 0
    /\ next_slot = 0
    /\ cycle = 0
    /\ curIdx = 0
    /\ listFailed = {}
    /\ listed = << >>
    /\ instruments = << >>
    /\ sem = 0
    /\ ntasks = 0
    /\ wpc = << >>
    /\ retry_count = << >>
    /\ attempts = << >>
    /\ rows = << >>
    /\ slot_time = 0
    /\ df_raw = << >>
    /\ written = {}

(***************************************************************************)
(* SpecParse: parse_instrument_name applied to identifiers put together     *)
(* from tokens.                                                             *)
(***************************************************************************)
UnderlyingTokens == {"BTC", "ETH", "btc", ""}
ExpiryTokens == {"27OCT25", "7JAN26", "31FEB25", "27XYZ25", "27OCT2025", "PERPETUAL"}
StrikeTokens == {"65000", "0.5", "1.2.3", "ABC", ""}
OptTokens == {"C", "P", "X"}

ParseNames ==
    UnderlyingTokens
    \cup {u \o "-" \o e : u \in UnderlyingTokens, e \in ExpiryTokens}
    \cup {u \o "-" \o e \o "-" \o s : u \in {"BTC"}, e \in ExpiryTokens, s \in StrikeTokens}
    \cup {u \o "-" \o e \o "-" \o s \o "-" \o o :
            u \in UnderlyingTokens, e \in ExpiryTokens, s \in StrikeTokens, o \in OptTokens}

InitParse ==
    /\ ProgIdle
    /\ arg \in [name : ParseNames]
    /\ ret = Pending

CallParse ==
    /\ mode = "idle"
    /\ ret = Pending
    /\ arg \in [name : ParseNames]
    /\ ret' = parse_instrument_name(arg.name)
    /\ UNCHANGED << arg, progVars >>

NextParse == CallParse

SpecParse == InitParse /\ [][NextParse]_vars

(***************************************************************************)
(* C6: parse_instrument_name never raises, whatever the string.             *)
(* (The claim as stated; the code raises KeyError for an identifier whose   *)
(* month token is three capitals that name no month, and ValueError for a   *)
(* strike with two dots.)                                                   *)
(***************************************************************************)
ParseNeverRaises ==
    (arg \in [name : ParseNames] /\ ret # Pending) => ~ret.raised

\* The well-formed cases of the claim, which the code does deliver.
ParseOptionReached ==
    /\ arg = [name |-> "BTC-27OCT25-65000-C"]
    /\ ret = [raised |-> FALSE,
              value |-> ParsedInstrument("option", "BTC", "2025-10-27", Some("C"),
                                         Some([m |-> 65000, e |-> 0]))]


(***************************************************************************)
(* deribit_rest_30m.py: align_next_slot                                     *)
(***************************************************************************)
SubSec == 2
TicksPerMinute == 60 * SubSec
TicksPerHour == 60 * TicksPerMinute

\* datetime.minute
MinuteOfHour(t) == (t \div TicksPerMinute) % 60
\* datetime.replace(second=0, microsecond=0)
FloorMinute(t) == t - (t % TicksPerMinute)
\* datetime.replace(minute=0) of a time with zero seconds
FloorHour(t) == t - (t % TicksPerHour)

align_next_slot(start, minutes) ==
    LET base == FloorMinute(start)
        step == minutes
        k == ((MinuteOfHour(base) \div step) + 1) * step
        target == FloorHour(base) + k * TicksPerMinute
    IN IF target <= start THEN target + step * TicksPerMinute ELSE target

(***************************************************************************)
(* SpecAlign: align_next_slot applied to instants of two hours and to every *)
(* interval up to MaxInterval minutes.                                      *)
(***************************************************************************)
MaxStartMinute == 61
MaxInterval == 60

AlignStarts == {m * TicksPerMinute + o :
                  m \in 0..MaxStartMinute, o \in {0, 1, TicksPerMinute - 1}}
AlignArgs == [start : AlignStarts, minutes : 1..MaxInterval]

InitAlign ==
    /\ ProgIdle
    /\ arg \in AlignArgs
    /\ ret = Pending

CallAlign ==
    /\ mode = "idle"
    /\ ret = Pending
    /\ arg \in AlignArgs
    /\ ret' = [value |-> align_next_slot(arg.start, arg.minutes)]
    /\ UNCHANGED << arg, progVars >>

NextAlign == CallAlign

SpecAlign == InitAlign /\ [][NextAlign]_vars

(***************************************************************************)
(* C4: for every instant and every positive whole number of minutes,        *)
(* align_next_slot returns an instant strictly after the given one, with    *)
(* zero seconds, whose minute-of-hour is a multiple of the interval.        *)
(* (The claim as stated; the code leaves the grid when the interval does    *)
(* not divide 60: 10:58 with 7 minutes gives 11:03.)                        *)
(***************************************************************************)
AlignOnGrid ==
    (arg \in AlignArgs /\ ret # Pending) =>
        /\ ret.value > arg.start
        /\ ret.value % TicksPerMinute = 0
        /\ MinuteOfHour(ret.value) % arg.minutes = 0

\* What the code does deliver for every interval: a later whole minute.
AlignLaterWholeMinute ==
    (arg \in AlignArgs /\ ret # Pending) =>
        /\ ret.value > arg.start
        /\ ret.value % TicksPerMinute = 0

\* The stated failing input: 58 minutes past the hour, interval 7.
AlignOffGridReached ==
    /\ arg = [start |-> 58 * TicksPerMinute, minutes |-> 7]
    /\ ret = [value |-> 63 * TicksPerMinute]


(***************************************************************************)
(* Data frames.  A frame is [columns, rows]: the set of its column names    *)
(* and the sequence of its rows, each a function from the columns to cells. *)
(* A cell is None (None / NaN / NaT) or Some(v).  Prices and greeks are     *)
(* fixed-point integers: a price is held in half-units (Some(-2) is the     *)
(* price -1), iv in units of 0.00001 (Some(1000) is 0.01).                  *)
(***************************************************************************)
Frame(columns, rws) == [columns |-> columns, rows |-> rws]
NRows(f) == Len(f.rows)
\* df[c]
Col(f, c) == [i \in 1..NRows(f) |-> f.rows[i][c]]
\* df[c] = vals
SetCol(f, c, vals) ==
    Frame(f.columns \cup {c},
          [i \in 1..NRows(f) |->
              [k \in f.columns \cup {c} |-> IF k = c THEN vals[i] ELSE f.rows[i][k]]])
\* df[mask]
Filter(f, mask) ==
    LET RECURSIVE Keep(_)
        Keep(i) == IF i > NRows(f) THEN << >>
                   ELSE (IF mask[i] THEN << f.rows[i] >> ELSE << >>) \o Keep(i + 1)
    IN Frame(f.columns, Keep(1))

\* Comparisons of cells as pandas makes them: any comparison with NaN is False.
CellGe(a, b) == ~IsNone(a) /\ ~IsNone(b) /\ Val(a) >= Val(b)
CellGt(a, b) == ~IsNone(a) /\ ~IsNone(b) /\ Val(a) > Val(b)
CellLe(a, b) == ~IsNone(a) /\ ~IsNone(b) /\ Val(a) <= Val(b)

(***************************************************************************)
(* normalize.py: to_utc_ms, ALIASES, coalesce_columns                       *)
(***************************************************************************)
\* A timestamp cell of the model is a datetime (ticks) or None.
to_utc_ms(ts) ==
    IF IsNone(ts) THEN [raised |-> TRUE, exc |-> "ValueError"]
    ELSE [raised |-> FALSE, value |-> Some((Val(ts) * 1000) \div SubSec)]

ALIASES == <<
    << "slot_time_utc", << "slot_time_utc" >> >>,
    << "timestamp", << "timestamp_utc" >> >>,
    << "instrument_name", << "instrument_name", "symbol", "inst" >> >>,
    << "bid", << "best_bid_price", "bid_price", "bid" >> >>,
    << "ask", << "best_ask_price", "ask_price", "ask" >> >>,
    << "mark_price", << "mark_price", "mark", "last_price" >> >>,
    << "iv", << "mark_iv", "iv", "implied_volatility" >> >>,
    << "delta", << "delta" >> >>,
    << "gamma", << "gamma" >> >>,
    << "vega", << "vega" >> >>,
    << "theta", << "theta" >> >>,
    << "F", << "underlying_price" >> >>,
    << "S", << "index_price" >> >>,
    << "volume", << "volume", "volume_24h" >> >>,
    << "open_interest", << "open_interest", "oi" >> >>,
    << "maturity", << "maturity", "expiry_utc", "expiration", "expiration_date",
                      "expiration_timestamp" >> >>,
    << "strike", << "strike", "k", "strike_price" >> >>,
    << "option_type", << "option_type", "is_call", "call_put", "right" >> >>,
    << "kind", << "kind", "instrument_type", "type" >> >> >>

\* One turn of the loop over ALIASES: the first alias present gives the target.
CoalesceOne(f, target, candidates) ==
    LET present == {i \in 1..Len(candidates) : candidates[i] \in f.columns} IN
    IF target \in f.columns \/ present = {} THEN f
    ELSE SetCol(f, target,
                Col(f, candidates[CHOOSE i \in present : \A j \in present : i <= j]))

RECURSIVE CoalesceFrom(_, _)
CoalesceFrom(f, n) ==
    IF n > Len(ALIASES) THEN f
    ELSE Eval(CoalesceOne(f, ALIASES[n][1], ALIASES[n][2]),
              LAMBDA g : CoalesceFrom(g, n + 1))

\* str(x).upper() over the model's alphabet
UpperOf(c) ==
    LET i == Ord(c) IN IF i > Ord("Z") THEN Char(Alphabet, i - 26) ELSE c
RECURSIVE StrUpper(_)
StrUpper(s) == IF Len(s) = 0 THEN "" ELSE UpperOf(Char(s, 1)) \o StrUpper(Tail(s))

norm_opt(x) ==
    IF IsNone(x) THEN None
    ELSE LET u == StrUpper(Val(x)) IN
         IF u \in {"C", "CALL", "1", "TRUE"} THEN Some("C")
         ELSE IF u \in {"P", "PUT", "0", "FALSE"} THEN Some("P")
         ELSE None

\* The numeric cells of the model are numbers already: pd.to_numeric leaves
\* them, and iv is divided by 100.
NumericCast(f) ==
    IF "iv" \in f.columns
    THEN SetCol(f, "iv", [i \in 1..NRows(f) |->
                             IF IsNone(f.rows[i]["iv"]) THEN None
                             ELSE Some(Val(f.rows[i]["iv"]) \div 100)])
    ELSE f

\* if "timestamp" in out.columns: out["timestamp"].map(to_utc_ms)
MapTimestamp(a) ==
    IF "timestamp" \notin a.columns THEN [raised |-> FALSE, value |-> a]
    ELSE IF \E i \in 1..NRows(a) : to_utc_ms(a.rows[i]["timestamp"]).raised
    THEN [raised |-> TRUE, exc |-> "ValueError"]
    ELSE [raised |-> FALSE,
          value |-> SetCol(a, "timestamp",
                       [i \in 1..NRows(a) |-> to_utc_ms(a.rows[i]["timestamp"]).value])]

\* if "option_type" in out.columns: out["option_type"].map(_norm_opt)
MapOptionType(b) ==
    IF "option_type" \in b.columns
    THEN SetCol(b, "option_type",
                [i \in 1..NRows(b) |-> norm_opt(b.rows[i]["option_type"])])
    ELSE b

coalesce_columns(df) ==
    Eval(CoalesceFrom(df, 1), LAMBDA a :
      Eval(MapTimestamp(a), LAMBDA b :
        IF b.raised THEN b
        ELSE Eval(MapOptionType(b.value), LAMBDA c :
               [raised |-> FALSE, value |-> NumericCast(c)])))

(***************************************************************************)
(* normalize.py: add_parsed_columns                                         *)
(***************************************************************************)
\* out.get(c, all None).fillna(filler)
FillNa(f, c, filler) ==
    [i \in 1..NRows(f) |->
        IF c \in f.columns /\ ~IsNone(f.rows[i][c]) THEN f.rows[i][c] ELSE filler[i]]

\* A maturity cell is a datetime (from expiry_utc) or the parser's string.
StrCell(s) == Some([str |-> s])

\* out[c] = out.get(c, all None).fillna(filler)
FillCol(f, c, filler) == SetCol(f, c, FillNa(f, c, filler))

\* astype(str): a null name reads "None"
NameStr(cell) == IF IsNone(cell) THEN "None" ELSE Val(cell)

add_parsed_columns(df) ==
    IF "instrument_name" \notin df.columns THEN [raised |-> FALSE, value |-> df]
    ELSE
    Eval([i \in 1..NRows(df) |->
             parse_instrument_name(NameStr(df.rows[i]["instrument_name"]))],
         LAMBDA parsed :
    IF \E i \in 1..NRows(df) : parsed[i].raised
    THEN [raised |-> TRUE, exc |-> (parsed[CHOOSE i \in 1..NRows(df) :
                parsed[i].raised /\ \A j \in 1..(i - 1) : ~parsed[j].raised]).exc]
    ELSE
    Eval(FillCol(df, "kind", [i \in 1..NRows(df) |-> Some(parsed[i].value.kind)]),
         LAMBDA a :
    Eval(FillCol(a, "maturity",
                 [i \in 1..NRows(df) |-> StrCell(parsed[i].value.maturity)]),
         LAMBDA b :
    Eval(FillCol(b, "option_type",
                 [i \in 1..NRows(df) |-> parsed[i].value.option_type]),
         LAMBDA c :
    Eval(FillCol(c, "strike", [i \in 1..NRows(df) |-> parsed[i].value.strike]),
         LAMBDA d :
    [raised |-> FALSE,
     value |-> FillCol(d, "underlying",
                       [i \in 1..NRows(df) |-> Some(parsed[i].value.underlying)])])))))

(***************************************************************************)
(* normalize.py: standardize (sort_values, drop_duplicates, reset_index)    *)
(***************************************************************************)
\* Ascending order of one key column, NaN last.
CellLess(c, a, b) ==
    IF IsNone(a) THEN FALSE
    ELSE IF IsNone(b) THEN TRUE
    ELSE IF c = "instrument_name" THEN StrLess(Val(a), Val(b))
    ELSE Val(a) < Val(b)

RECURSIVE RowLess(_, _, _)
RowLess(r1, r2, cols) ==
    IF Len(cols) = 0 THEN FALSE
    ELSE IF CellLess(cols[1], r1[cols[1]], r2[cols[1]]) THEN TRUE
    ELSE IF CellLess(cols[1], r2[cols[1]], r1[cols[1]]) THEN FALSE
    ELSE RowLess(r1, r2, Tail(cols))

\* sort_values on several columns is a stable sort: a row goes after every
\* row that is not greater.
RECURSIVE InsertRow(_, _, _)
InsertRow(sorted, r, cols) ==
    IF Len(sorted) = 0 THEN << r >>
    ELSE IF RowLess(r, sorted[Len(sorted)], cols)
         THEN InsertRow(SubSeq(sorted, 1, Len(sorted) - 1), r, cols)
                  \o << sorted[Len(sorted)] >>
         ELSE sorted \o << r >>

RECURSIVE SortRows(_, _)
SortRows(rws, cols) ==
    IF Len(rws) = 0 THEN << >>
    ELSE Eval(SortRows(SubSeq(rws, 1, Len(rws) - 1), cols),
              LAMBDA sorted : InsertRow(sorted, rws[Len(rws)], cols))

sort_values(f, cols) == Frame(f.columns, SortRows(f.rows, cols))

SameKey(r1, r2, cols) == \A i \in 1..Len(cols) : r1[cols[i]] = r2[cols[i]]

\* drop_duplicates(cols, keep="last")
drop_duplicates(f, cols) ==
    Filter(f, [i \in 1..NRows(f) |->
                  \A j \in (i + 1)..NRows(f) : ~SameKey(f.rows[i], f.rows[j], cols)])

SortCols(f) ==
    (IF "instrument_name" \in f.columns THEN << "instrument_name" >> ELSE << >>)
    \o (IF "slot_time_utc" \in f.columns THEN << "slot_time_utc" >> ELSE << >>)

SortDedupe(f) ==
    IF Len(SortCols(f)) > 0
    THEN Eval(sort_values(f, SortCols(f)), LAMBDA g : drop_duplicates(g, SortCols(g)))
    ELSE f

standardize(df) ==
    Eval(coalesce_columns(df), LAMBDA a :
      IF a.raised THEN a
      ELSE Eval(add_parsed_columns(a.value), LAMBDA b :
             IF b.raised THEN b
             ELSE [raised |-> FALSE, value |-> SortDedupe(b.value)]))

(***************************************************************************)
(* cleaning.py: QCLimits, enforce_bid_ask_rules, flag_iv_outliers           *)
(***************************************************************************)
IvMinDefault == 1000
IvMaxDefault == 500000
QCLimits == [iv_min |-> IvMinDefault, iv_max |-> IvMaxDefault]

\* A slip in the mask: ask >= 0 where the code has ask > 0.
BidAskMaskAskGe(r) ==
    /\ CellGe(r["bid"], Some(0))
    /\ CellGe(r["ask"], Some(0))
    /\ CellGe(r["ask"], r["bid"])

\* One row's test: (bid >= 0) & (ask > 0) & (ask >= bid)
BidAskMask(r) ==
    /\ CellGe(r["bid"], Some(0))
    /\ CellGt(r["ask"], Some(0))
    /\ CellGe(r["ask"], r["bid"])

enforce_bid_ask_rules(df) ==
    IF {"bid", "ask"} \subseteq df.columns
    THEN Filter(df, [i \in 1..NRows(df) |-> BidAskMask(df.rows[i])])
    ELSE df

\* A slip in the range test: inclusive="neither".
BetweenNeither(x, left, right) == CellGt(x, Some(left)) /\ CellGt(Some(right), x)

\* Series.between(left, right, inclusive="both")
Between(x, left, right) == CellGe(x, Some(left)) /\ CellLe(x, Some(right))

IvOutlier(r, limits) == ~Between(r["iv"], limits.iv_min, limits.iv_max)

flag_iv_outliers(df, limits) ==
    IF "iv" \in df.columns
    THEN SetCol(df, "iv_flag_outlier",
                [i \in 1..NRows(df) |-> IvOutlier(df.rows[i], limits)])
    ELSE df


(***************************************************************************)
(* deribit_rest_30m.py: make_row.  A ticker response ob is a function from  *)
(* the keys it holds to cells; greeks, when present, is such a function too.*)
(* The prices of the model are whole, so (bid + ask) / 2.0 is exact in      *)
(* half-units.                                                              *)
(***************************************************************************)
\* ob.get(k)
DictGet(d, k) == IF k \in DOMAIN d THEN d[k] ELSE None

RowColumns == {"slot_time_utc", "timestamp_utc", "underlying", "instrument_name",
               "expiry_utc", "strike", "option_type", "bid", "ask", "mid", "iv",
               "delta", "gamma", "vega", "theta", "rho", "index_price",
               "underlying_price"}

make_row(slot, underlying, instrument, ob, t) ==
    IF ~({"best_bid_price", "best_ask_price"} \subseteq DOMAIN ob)
    THEN [raised |-> TRUE, exc |-> "KeyError"]
    ELSE
    LET best_bid == ob["best_bid_price"]
        best_ask == ob["best_ask_price"]
        mid == IF ~IsNone(best_bid) /\ ~IsNone(best_ask)
               THEN Some((Val(best_bid) + Val(best_ask)) \div 2)
               ELSE None
        parts == Split(instrument, "-")
        expiry == IF Len(parts) >= 4 THEN parse_expiry_code(parts[2])
                  ELSE [raised |-> FALSE, value |-> None]
        strike == IF Len(parts) >= 4 /\ ~PyFloat(parts[3]).raised
                  THEN Some(PyFloat(parts[3]).value)
                  ELSE None
        opt_type == IF Len(parts) >= 4 THEN Some(parts[4]) ELSE None
        greeks == DictGet(ob, "greeks")
        Greek(g) == IF IsNone(greeks) THEN None ELSE DictGet(Val(greeks), g)
    IN IF expiry.raised THEN expiry
       ELSE [raised |-> FALSE,
             value |-> [c \in RowColumns |->
                CASE c = "slot_time_utc" -> Some(slot)
                  [] c = "timestamp_utc" -> Some(t)
                  [] c = "underlying" -> Some(underlying)
                  [] c = "instrument_name" -> Some(instrument)
                  [] c = "expiry_utc" -> expiry.value
                  [] c = "strike" -> strike
                  [] c = "option_type" -> opt_type
                  [] c = "bid" -> best_bid
                  [] c = "ask" -> best_ask
                  [] c = "mid" -> mid
                  [] c = "iv" -> DictGet(ob, "mark_iv")
                  [] c \in {"delta", "gamma", "vega", "theta", "rho"} -> Greek(c)
                  [] c = "index_price" -> DictGet(ob, "index_price")
                  [] c = "underlying_price" -> DictGet(ob, "underlying_price")]]

(***************************************************************************)
(* SpecClean: standardize, enforce_bid_ask_rules and flag_iv_outliers       *)
(* applied to frames of raw snapshot rows.  The frames come in families:    *)
(* rows that vary in their key and bid, rows that vary in bid and ask, rows *)
(* that vary in iv (with several limits), and frames that lack a column.    *)
(***************************************************************************)
MaxRows == 3
MaxRowsQC == 2

CleanNames == {"BTC-27OCT25-65000-C", "ETH-PERPETUAL", "BTC-27XYZ25-65000-C"}
CleanSlots == {0, 30 * TicksPerMinute}
KeyBids == {10, 12}
BidCells == {None, Some(-2), Some(0), Some(10), Some(12)}
AskCells == {None, Some(0), Some(10), Some(12)}
IvCells == {None, Some(500), Some(1000), Some(100000), Some(500000), Some(500100)}
LimitsSet == {QCLimits, [iv_min |-> 500, iv_max |-> 100000],
              [iv_min |-> 100000, iv_max |-> 100000]}

\* A ticker response with the given quote and iv.
Ticker(bid, ask, iv) ==
    [best_bid_price |-> bid, best_ask_price |-> ask, mark_iv |-> iv,
     greeks |-> Some([delta |-> Some(1), gamma |-> Some(1), vega |-> Some(1),
                      theta |-> Some(1), rho |-> None]),
     index_price |-> Some(60000), underlying_price |-> Some(60010)]

\* The raw row of an instrument whose expiry token is a date; an identifier
\* with another expiry token gives the same row with no expiry.
RawRow(name, slot, bid, ask, iv) ==
    LET r == make_row(slot, "BTC", name, Ticker(bid, ask, iv), slot + 1) IN
    IF r.raised THEN make_row(slot, "BTC", "X", Ticker(bid, ask, iv), slot + 1).value
    ELSE r.value

SeqsUpTo(S, n) == UNION {[1..k -> S] : k \in 0..n}

KeyRows == {RawRow(n, t, Some(b), Some(20), Some(100000)) :
              n \in CleanNames, t \in CleanSlots, b \in KeyBids}
QuoteRows == {RawRow("ETH-PERPETUAL", 0, b, a, Some(100000)) :
                b \in BidCells, a \in AskCells}
IvRows == {RawRow("ETH-PERPETUAL", 0, Some(10), Some(20), iv) : iv \in IvCells}

DropCol(f, c) ==
    Frame(f.columns \ {c},
          [i \in 1..NRows(f) |-> [k \in f.columns \ {c} |-> f.rows[i][k]]])

CleanArgs ==
    {[df |-> Frame(RowColumns, rws), limits |-> QCLimits] :
        rws \in SeqsUpTo(KeyRows, MaxRows)}
    \cup {[df |-> Frame(RowColumns, rws), limits |-> QCLimits] :
        rws \in SeqsUpTo(QuoteRows, MaxRowsQC)}
    \cup {[df |-> Frame(RowColumns, rws), limits |-> l] :
        rws \in SeqsUpTo(IvRows, MaxRowsQC), l \in LimitsSet}
    \cup {[df |-> DropCol(Frame(RowColumns, << r >>), c), limits |-> QCLimits] :
        r \in {RawRow("ETH-PERPETUAL", 0, Some(10), Some(20), Some(100000))},
        c \in {"ask", "iv", "instrument_name"}}

InitClean ==
    /\ ProgIdle
    /\ arg \in CleanArgs
    /\ ret = Pending

CallStandardize ==
    /\ mode = "idle"
    /\ ret = Pending
    /\ "df" \in DOMAIN arg
    /\ ret' = [fn |-> "standardize", out |-> standardize(arg.df)]
    /\ UNCHANGED << arg, progVars >>

CallEnforceBidAsk ==
    /\ mode = "idle"
    /\ ret = Pending
    /\ "df" \in DOMAIN arg
    /\ ret' = [fn |-> "enforce_bid_ask_rules", out |-> enforce_bid_ask_rules(arg.df)]
    /\ UNCHANGED << arg, progVars >>

CallFlagIv ==
    /\ mode = "idle"
    /\ ret = Pending
    /\ "df" \in DOMAIN arg
    /\ ret' = [fn |-> "flag_iv_outliers", out |-> flag_iv_outliers(arg.df, arg.limits)]
    /\ UNCHANGED << arg, progVars >>

NextClean == CallStandardize \/ CallEnforceBidAsk \/ CallFlagIv

SpecClean == InitClean /\ [][NextClean]_vars

Returned(fn) == ret # Pending /\ "fn" \in DOMAIN ret /\ ret.fn = fn


(***************************************************************************)
(* C8: for every input row set, standardize returns exactly one row per     *)
(* distinct (instrument_name, slot_time_utc) key of the input, loses no key,*)
(* and keeps for each key the last occurrence in the sorted order, which    *)
(* (the sort being stable) is the last occurrence of the input.             *)
(* (The claim as stated; standardize parses every instrument name first and *)
(* raises with parse_instrument_name, see C6, returning no row at all.)     *)
(***************************************************************************)
RowKey(r) == << r["instrument_name"], r["slot_time_utc"] >>
KeysOf(rws) == {RowKey(rws[i]) : i \in 1..Len(rws)}
LastWithKey(rws, k) ==
    rws[CHOOSE i \in 1..Len(rws) :
           RowKey(rws[i]) = k /\ \A j \in (i + 1)..Len(rws) : RowKey(rws[j]) # k]

OneRowPerKey(inp, out) ==
    /\ \A i, j \in 1..Len(out) : RowKey(out[i]) = RowKey(out[j]) => i = j
    /\ KeysOf(out) = KeysOf(inp)
    /\ \A i \in 1..Len(out) : out[i]["bid"] = LastWithKey(inp, RowKey(out[i]))["bid"]

KeyedInput == {"instrument_name", "slot_time_utc"} \subseteq arg.df.columns

StandardizeOneRowPerKey ==
    (Returned("standardize") /\ KeyedInput) =>
        /\ ~ret.out.raised
        /\ OneRowPerKey(arg.df.rows, ret.out.value.rows)

\* What the code does deliver: the claim, whenever standardize returns.
StandardizeDedupesWhenItReturns ==
    (Returned("standardize") /\ KeyedInput /\ ~ret.out.raised) =>
        OneRowPerKey(arg.df.rows, ret.out.value.rows)

\* Two rows of one key that differ in bid give one row, with the later bid.
StandardizeLastWinsReached ==
    /\ Returned("standardize")
    /\ NRows(arg.df) = 2
    /\ RowKey(arg.df.rows[1]) = RowKey(arg.df.rows[2])
    /\ arg.df.rows[1]["bid"] = Some(12)
    /\ arg.df.rows[2]["bid"] = Some(10)
    /\ ~ret.out.raised
    /\ NRows(ret.out.value) = 1
    /\ ret.out.value.rows[1]["bid"] = Some(10)

\* The failing input: one row whose month token names no month.
StandardizeRaisesReached ==
    /\ Returned("standardize")
    /\ KeyedInput
    /\ NRows(arg.df) = 1
    /\ arg.df.rows[1]["instrument_name"] = Some("BTC-27XYZ25-65000-C")
    /\ ret.out.raised

(***************************************************************************)
(* C9: on a frame that has the bid and ask columns, enforce_bid_ask_rules   *)
(* returns exactly the input rows with bid >= 0, ask > 0 and ask >= bid, in *)
(* their order; a row with a null bid or ask, or failing a test, is absent. *)
(***************************************************************************)
ValidQuote(r) ==
    /\ r["bid"] # None
    /\ r["ask"] # None
    /\ Val(r["bid"]) >= 0
    /\ Val(r["ask"]) > 0
    /\ Val(r["ask"]) >= Val(r["bid"])

EnforceKeepsExactlyValid ==
    (Returned("enforce_bid_ask_rules") /\ {"bid", "ask"} \subseteq arg.df.columns) =>
        /\ ret.out.columns = arg.df.columns
        /\ ret.out.rows = SelectSeq(arg.df.rows, ValidQuote)

\* A row with bid = -1 is dropped and the valid row after it is kept.
EnforceDropsReached ==
    /\ Returned("enforce_bid_ask_rules")
    /\ NRows(arg.df) = 2
    /\ arg.df.rows[1]["bid"] = Some(-2)
    /\ ValidQuote(arg.df.rows[2])
    /\ ret.out.rows = << arg.df.rows[2] >>

(***************************************************************************)
(* C10: flag_iv_outliers sets iv_flag_outlier to true exactly when iv is    *)
(* null or lies outside [iv_min, iv_max], both bounds inclusive, and leaves *)
(* every other cell; with the default limits 0.01 and 5.0, iv = 0.005 is    *)
(* flagged, iv = 1.0 and iv at either bound are not.                        *)
(***************************************************************************)
OutsideLimits(iv, limits) ==
    iv = None \/ Val(iv) < limits.iv_min \/ Val(iv) > limits.iv_max

FlagIvExactlyOutside ==
    (Returned("flag_iv_outliers") /\ "iv" \in arg.df.columns) =>
        /\ ret.out.columns = arg.df.columns \cup {"iv_flag_outlier"}
        /\ NRows(ret.out) = NRows(arg.df)
        /\ \A i \in 1..NRows(arg.df) :
              /\ \A c \in arg.df.columns : ret.out.rows[i][c] = arg.df.rows[i][c]
              /\ ret.out.rows[i]["iv_flag_outlier"]
                     = OutsideLimits(arg.df.rows[i]["iv"], arg.limits)
              /\ arg.limits = QCLimits =>
                    /\ arg.df.rows[i]["iv"] = Some(500)
                          => ret.out.rows[i]["iv_flag_outlier"]
                    /\ arg.df.rows[i]["iv"] \in {Some(1000), Some(100000), Some(500000)}
                          => ~ret.out.rows[i]["iv_flag_outlier"]

\* Default limits: a null iv is flagged, iv at the lower bound is not.
FlagIvBoundReached ==
    /\ Returned("flag_iv_outliers")
    /\ arg.limits = QCLimits
    /\ NRows(arg.df) = 2
    /\ arg.df.rows[1]["iv"] = None
    /\ arg.df.rows[2]["iv"] = Some(IvMinDefault)
    /\ ret.out.rows[1]["iv_flag_outlier"]
    /\ ~ret.out.rows[2]["iv_flag_outlier"]


(***************************************************************************)
(* deribit_rest_30m.py: build_smiles.  groupby(..., dropna=False) keeps the *)
(* groups whose key has a null; the groups come out in the order of their   *)
(* keys, nulls last; mean skips the nulls of a group.  The numeric cells of *)
(* the frames it is applied to are multiples of SmileUnit, so that a mean   *)
(* of up to MaxSmileRows + 1 of them is a whole number of units.            *)
(***************************************************************************)
SmileKeys == << "underlying", "expiry_utc", "option_type", "strike" >>

\* agg(out=(column, "mean")): the output column and the column it averages.
SmileAggs == [bid |-> "bid", ask |-> "ask", mid |-> "mid", iv |-> "iv",
              delta |-> "delta", gamma |-> "gamma", vega |-> "vega",
              theta |-> "theta", rho |-> "rho",
              S |-> "index_price", F |-> "underlying_price"]

SmileColumns == {"slot_time_utc"} \cup {SmileKeys[i] : i \in 1..Len(SmileKeys)}
                   \cup DOMAIN SmileAggs

RECURSIVE SumSeq(_)
SumSeq(q) == IF Len(q) = 0 THEN 0 ELSE q[1] + SumSeq(Tail(q))

\* The non-null cells of a column, in order.
RECURSIVE NonNull(_)
NonNull(cells) ==
    IF Len(cells) = 0 THEN << >>
    ELSE (IF IsNone(cells[1]) THEN << >> ELSE << Val(cells[1]) >>)
            \o NonNull(Tail(cells))

\* A mean that takes a null for a zero.
MeanNullAsZero(cells) ==
    IF Len(cells) = 0 THEN None
    ELSE Some(SumSeq(NonNull(cells)) \div Len(cells))

\* Series.mean of one group: the nulls are skipped, no value gives NaN.
MeanSkipNa(cells) ==
    IF Len(NonNull(cells)) = 0 THEN None
    ELSE Some(SumSeq(NonNull(cells)) \div Len(NonNull(cells)))

DateLess(a, b) ==
    \/ a.year < b.year
    \/ a.year = b.year /\ a.mon < b.mon
    \/ a.year = b.year /\ a.mon = b.mon /\ a.day < b.day

\* Ascending order of one group key, nulls last.
GroupCellLess(c, a, b) ==
    IF IsNone(a) THEN FALSE
    ELSE IF IsNone(b) THEN TRUE
    ELSE IF c \in {"underlying", "option_type"} THEN StrLess(Val(a), Val(b))
    ELSE IF c = "expiry_utc" THEN DateLess(Val(a), Val(b))
    ELSE Val(a) < Val(b)

RECURSIVE GroupKeyLess(_, _, _)
GroupKeyLess(k1, k2, i) ==
    IF i > Len(SmileKeys) THEN FALSE
    ELSE IF GroupCellLess(SmileKeys[i], k1[i], k2[i]) THEN TRUE
    ELSE IF GroupCellLess(SmileKeys[i], k2[i], k1[i]) THEN FALSE
    ELSE GroupKeyLess(k1, k2, i + 1)

GroupKey(r) == [i \in 1..Len(SmileKeys) |-> r[SmileKeys[i]]]

\* The distinct keys of the rows, sorted.
RECURSIVE SortKeys(_)
SortKeys(ks) ==
    IF ks = {} THEN << >>
    ELSE LET least == CHOOSE k \in ks : \A o \in ks \ {k} : GroupKeyLess(k, o, 1)
         IN << least >> \o SortKeys(ks \ {least})

\* The rows of one group, in the order of the frame.
GroupRows(f, key) ==
    Filter(f, [i \in 1..NRows(f) |-> GroupKey(f.rows[i]) = key]).rows

build_smiles(df) ==
    IF NRows(df) = 0 THEN df
    ELSE
    LET keys == SortKeys({GroupKey(df.rows[i]) : i \in 1..NRows(df)})
        AggRow(key) ==
            Eval(GroupRows(df, key), LAMBDA g :
              [c \in SmileColumns |->
                 IF c = "slot_time_utc" THEN df.rows[1]["slot_time_utc"]
                 ELSE IF c \in DOMAIN SmileAggs
                      THEN MeanSkipNa([i \in 1..Len(g) |-> g[i][SmileAggs[c]]])
                      ELSE g[1][c]])
    IN Frame(SmileColumns, [n \in 1..Len(keys) |-> AggRow(keys[n])])

(***************************************************************************)
(* cleaning.py: _load_yaml_dict, _limits_from_mapping, _apply_env_overrides,*)
(* get_qc_limits.  A file is the sequence of its lines; a parsed value is   *)
(* [t |-> "num", v |-> float] or [t |-> "str", v |-> text]; a dict is a     *)
(* function on its keys.  The environment gives Some(text) or None for a    *)
(* variable.  A limit is held in units of 0.00001, as in QCLimits.          *)
(***************************************************************************)
\* s.strip(), s.lstrip() of blanks
RECURSIVE LStrip(_)
LStrip(s) == IF Len(s) > 0 /\ Char(s, 1) = " " THEN LStrip(Tail(s)) ELSE s
RECURSIVE RStrip(_)
RStrip(s) == IF Len(s) > 0 /\ Char(s, Len(s)) = " "
             THEN RStrip(SubSeq(s, 1, Len(s) - 1)) ELSE s
Strip(s) == LStrip(RStrip(s))

\* c in s
HasChar(s, c) == \E i \in 1..Len(s) : Char(s, i) = c

\* s.split(sep, 1) of a string that holds sep
SplitOnce(s, sep) ==
    LET i == CHOOSE k \in 1..Len(s) :
                /\ Char(s, k) = sep
                /\ \A j \in 1..(k - 1) : Char(s, j) # sep
    IN << SubSeq(s, 1, i - 1), SubSeq(s, i + 1, Len(s)) >>

\* int(s), for the literals without a sign
PyInt(s) ==
    IF Len(s) > 0 /\ AllIn(s, Digits)
    THEN [raised |-> FALSE, value |-> NormFloat(StrToNat(s), 0)]
    ELSE [raised |-> TRUE, exc |-> "ValueError"]

\* dict[k] = v
DictSet(d, k, v) == [x \in DOMAIN d \cup {k} |-> IF x = k THEN v ELSE d[x]]
EmptyDict == [x \in {} |-> 0]

\* The value of "k: v": "" if empty, else int or float, else the text.
YamlValue(v_str) ==
    IF v_str = "" THEN [t |-> "str", v |-> ""]
    ELSE LET first == IF HasChar(v_str, ".") \/ HasChar(v_str, "e") \/ HasChar(v_str, "E")
                      THEN PyFloat(v_str) ELSE PyInt(v_str)
         IN IF ~first.raised THEN [t |-> "num", v |-> first.value]
            ELSE IF ~PyFloat(v_str).raised THEN [t |-> "num", v |-> PyFloat(v_str).value]
            ELSE [t |-> "str", v |-> v_str]

\* One line of the file: st is [data, current], current the open section.
YamlLine(st, line) ==
    LET stripped == Strip(line) IN
    IF stripped = "" \/ Char(stripped, 1) = "#" THEN st
    ELSE IF ~(Len(line) > 0 /\ Char(line, 1) = " ")
    THEN IF HasChar(line, ":")
         THEN LET top_key == Strip(SplitOnce(line, ":")[1]) IN
              [data |-> DictSet(st.data, top_key, EmptyDict), current |-> Some(top_key)]
         ELSE [data |-> st.data, current |-> None]
    ELSE IF ~IsNone(st.current) /\ HasChar(stripped, ":")
    THEN LET kv == SplitOnce(stripped, ":")
             sect == st.data[Val(st.current)]
         IN [data |-> DictSet(st.data, Val(st.current),
                              DictSet(sect, Strip(kv[1]), YamlValue(Strip(kv[2])))),
             current |-> st.current]
    ELSE st

RECURSIVE YamlLines(_, _)
YamlLines(st, lines) ==
    IF Len(lines) = 0 THEN st
    ELSE Eval(YamlLine(st, lines[1]), LAMBDA nx : YamlLines(nx, Tail(lines)))

load_yaml_dict(lines) == YamlLines([data |-> EmptyDict, current |-> None], lines).data

\* _ENV_MAP, in the order of its keys
EnvMap == << << "spread_rel_max", "QC_SPREAD_REL_MAX" >>,
             << "volume_min", "QC_VOLUME_MIN" >>,
             << "iv_min", "QC_IV_MIN" >>,
             << "iv_max", "QC_IV_MAX" >> >>

RECURSIVE Pow10(_)
Pow10(n) == IF n = 0 THEN 1 ELSE 10 * Pow10(n - 1)

\* A float as a limit in units of 0.00001.
LimitUnits(x) == x.m * Pow10(5 - x.e)

\* float(v) of a parsed value or of a text
FloatOf(v) == IF v.t = "num" THEN [raised |-> FALSE, value |-> v.v] ELSE PyFloat(v.v)

\* replace(lim, **{field: float(v)}) inside try/except: a value float()
\* rejects, or a field QCLimits does not have, leaves lim as it is.
ReplaceOrKeep(lim, field, v) ==
    IF FloatOf(v).raised \/ field \notin DOMAIN lim THEN lim
    ELSE [lim EXCEPT ![field] = LimitUnits(FloatOf(v).value)]

RECURSIVE LimitsFromFields(_, _, _)
LimitsFromFields(base, m, i) ==
    IF i > Len(EnvMap) THEN base
    ELSE LimitsFromFields(IF EnvMap[i][1] \in DOMAIN m
                          THEN ReplaceOrKeep(base, EnvMap[i][1], m[EnvMap[i][1]])
                          ELSE base, m, i + 1)

limits_from_mapping(m) == LimitsFromFields(QCLimits, m, 1)

RECURSIVE EnvOverrides(_, _, _)
EnvOverrides(res, env, i) ==
    IF i > Len(EnvMap) THEN res
    ELSE LET val == env[EnvMap[i][2]] IN
         EnvOverrides(IF ~IsNone(val) /\ Val(val) # ""
                      THEN ReplaceOrKeep(res, EnvMap[i][1], [t |-> "str", v |-> Val(val)])
                      ELSE res, env, i + 1)

apply_env_overrides(lim, env) == EnvOverrides(lim, env, 1)

\* The candidates of get_qc_limits, in order.
Candidates(config_path, env) ==
    (IF ~IsNone(config_path) /\ Val(config_path) # "" THEN << Val(config_path) >>
     ELSE << >>)
    \o (IF ~IsNone(env["QC_CONFIG"]) /\ Val(env["QC_CONFIG"]) # ""
        THEN << Val(env["QC_CONFIG"]) >> ELSE << >>)
    \o << "qc.yml", "qc.yaml" >>

\* d.get("qc", {})
QcSection(d) == IF "qc" \in DOMAIN d THEN d["qc"] ELSE EmptyDict

\* The for loop without its break: every existing candidate is parsed.
RECURSIVE LimitsOfLastExisting(_, _, _)
LimitsOfLastExisting(cands, fs, lim) ==
    IF Len(cands) = 0 THEN lim
    ELSE LimitsOfLastExisting(Tail(cands), fs,
            IF cands[1] \in DOMAIN fs
            THEN limits_from_mapping(QcSection(load_yaml_dict(fs[cands[1]])))
            ELSE lim)

\* The for loop over the candidates: the first that exists is parsed.
RECURSIVE LimitsOfFirstExisting(_, _, _)
LimitsOfFirstExisting(cands, fs, lim) ==
    IF Len(cands) = 0 THEN lim
    ELSE IF cands[1] \in DOMAIN fs
         THEN limits_from_mapping(QcSection(load_yaml_dict(fs[cands[1]])))
         ELSE LimitsOfFirstExisting(Tail(cands), fs, lim)

\* fs: the files that exist, each with its lines.
get_qc_limits(config_path, env, fs) ==
    Eval(LimitsOfFirstExisting(Candidates(config_path, env), fs, QCLimits),
         LAMBDA lim : apply_env_overrides(lim, env))


(***************************************************************************)
(* cleaning.py: ONLY_AND_RENAMED, filter_rename_columns.  The result keeps  *)
(* the order of its columns in "order".                                     *)
(***************************************************************************)
ONLY_AND_RENAMED ==
    << << "slot_time_utc", "timestamp" >>, << "underlying", "underlying" >>,
       << "instrument_name", "instrument_name" >>, << "expiry_utc", "expiry" >>,
       << "strike", "strike" >>, << "option_type", "option_type" >>,
       << "bid", "bid" >>, << "ask", "ask" >>, << "mid", "mid" >>, << "iv", "iv" >>,
       << "delta", "delta" >>, << "gamma", "gamma" >>, << "vega", "vega" >>,
       << "theta", "theta" >>, << "rho", "rho" >>, << "F", "F" >>, << "S", "S" >>,
       << "spread_rel", "spread" >>, << "moneyness", "moneyness" >>,
       << "iv_flag_outlier", "iv_flag_outlier" >> >>

\* The source column of a canonical column.
SourceOf(v) ==
    ONLY_AND_RENAMED[CHOOSE i \in 1..Len(ONLY_AND_RENAMED) :
                        ONLY_AND_RENAMED[i][2] = v][1]

CanonicalOrder == [i \in 1..Len(ONLY_AND_RENAMED) |-> ONLY_AND_RENAMED[i][2]]

\* out = DataFrame(columns=..., index=df.index); out[v] = df[k] for every pair
RenamedFrame(df) ==
    [columns |-> {CanonicalOrder[i] : i \in 1..Len(CanonicalOrder)},
     order |-> CanonicalOrder,
     rows |-> [n \in 1..NRows(df) |->
                 [v \in {CanonicalOrder[i] : i \in 1..Len(CanonicalOrder)} |->
                     IF SourceOf(v) \in df.columns THEN df.rows[n][SourceOf(v)]
                     ELSE None]]]

\* A missing source column is passed over and its column left empty.
filter_rename_skip_missing(df) == [raised |-> FALSE, value |-> RenamedFrame(df)]

\* The first pair whose source column is missing raises ValueError.
filter_rename_columns(df) ==
    IF \E i \in 1..Len(ONLY_AND_RENAMED) : ONLY_AND_RENAMED[i][1] \notin df.columns
    THEN [raised |-> TRUE, exc |-> "ValueError"]
    ELSE [raised |-> FALSE, value |-> RenamedFrame(df)]


(***************************************************************************)
(* cleaning.py: add_moneyness.  A float that is not NaN is a finite number  *)
(* or an infinity; the quotient of two numbers is kept as a fraction in     *)
(* lowest terms, and the logarithm of a positive fraction q as              *)
(* [t |-> "log", of |-> q].  NaN is the null cell.                          *)
(***************************************************************************)
Abs(n) == IF n < 0 THEN -n ELSE n

RECURSIVE Gcd(_, _)
Gcd(a, b) == IF b = 0 THEN a ELSE Gcd(b, a % b)

\* num / den, den > 0, in lowest terms
Fraction(num, den) ==
    [num |-> num \div Gcd(Abs(num), den), den |-> den \div Gcd(Abs(num), den)]

\* Series / Series under errstate(divide="ignore", invalid="ignore"):
\* x / 0 is an infinity of the sign of x, 0 / 0 is NaN.
FloatDiv(a, b) ==
    IF IsNone(a) \/ IsNone(b) THEN None
    ELSE IF Val(b) = 0
         THEN IF Val(a) = 0 THEN None
              ELSE Some([t |-> "inf", sign |-> IF Val(a) > 0 THEN 1 ELSE -1])
    ELSE Some([t |-> "num",
               q |-> IF Val(b) > 0 THEN Fraction(Val(a), Val(b))
                     ELSE Fraction(-Val(a), -Val(b))])

\* np.log: NaN of a negative number, -inf of 0, inf of inf.
NpLog(x) ==
    IF IsNone(x) THEN None
    ELSE IF Val(x).t = "inf"
         THEN IF Val(x).sign > 0 THEN x ELSE None
    ELSE IF Val(x).q.num < 0 THEN None
    ELSE IF Val(x).q.num = 0 THEN Some([t |-> "inf", sign |-> -1])
    ELSE Some([t |-> "log", of |-> Val(x).q])

\* The test on the columns is on strike and index_price, the quotient is of
\* strike and underlying_price: out["underlying_price"] raises KeyError when
\* the frame has index_price and no underlying_price.
add_moneyness(df) ==
    IF {"strike", "index_price"} \subseteq df.columns
    THEN IF "underlying_price" \notin df.columns
         THEN [raised |-> TRUE, exc |-> "KeyError"]
         ELSE [raised |-> FALSE,
               value |-> SetCol(df, "moneyness",
                            [i \in 1..NRows(df) |->
                                NpLog(FloatDiv(df.rows[i]["strike"],
                                               df.rows[i]["underlying_price"]))])]
    ELSE [raised |-> FALSE, value |-> df]


(***************************************************************************)
(* SpecQC: build_smiles applied to frames of raw rows; get_qc_limits        *)
(* applied to a path argument, an environment and a set of existing files;  *)
(* filter_rename_columns applied to frames that have the columns of the     *)
(* cleaning pipeline and more, or lack up to MaxMissing of them;            *)
(* add_moneyness applied to frames of strikes and prices.                   *)
(***************************************************************************)
MaxSmileRows == 3
SmileUnit == 3 * 4

SmileNames == {<< "BTC", "BTC-27OCT25-65000-C" >>, << "BTC", "BTC-27OCT25-65000-P" >>,
               << "ETH", "ETH-PERPETUAL" >>}
SmileBids == {None, Some(10 * SmileUnit), Some(12 * SmileUnit)}

SmileRows ==
    {make_row(0, n[1], n[2], Ticker(b, Some(14 * SmileUnit), None), 1).value :
        n \in SmileNames, b \in SmileBids}

SmileArgs ==
    {[kind |-> "smiles", df |-> IF Len(rws) = 0 THEN Frame({}, << >>)
                                ELSE Frame(RowColumns, rws)] :
        rws \in SeqsUpTo(SmileRows, MaxSmileRows)}

\* The files that may exist, with their lines.
FileText ==
    [p \in {"a.yml", "e.yml", "qc.yml", "qc.yaml"} |->
        CASE p = "a.yml" -> << "# limits", "qc:", "  iv_min: 0.02", "  iv_max: 4",
                               "other:", "  iv_min: 0.5" >>
          [] p = "e.yml" -> << "qc:", "", "  iv_max: 3" >>
          [] p = "qc.yml" -> << "qc:", "  iv_min: abc", "  spread_rel_max: 1",
                                "  iv_max : 2.5" >>
          [] p = "qc.yaml" -> << "other:", "  iv_min: 0.5" >>]

FileSystems == {[p \in ps |-> FileText[p]] : ps \in SUBSET DOMAIN FileText}

Environments ==
    [QC_CONFIG : {None, Some(""), Some("e.yml")},
     QC_SPREAD_REL_MAX : {None, Some("1")},
     QC_VOLUME_MIN : {None},
     QC_IV_MIN : {None, Some(""), Some("0.05"), Some("abc")},
     QC_IV_MAX : {None, Some("2")}]

LimitArgs ==
    [kind : {"limits"},
     config_path : {None, Some(""), Some("a.yml"), Some("qc.yaml")},
     env : Environments,
     fs : FileSystems]

MaxMissing == 2

\* The columns clean_snapshot's frame has before filter_rename_columns, and
\* two it drops.
PipelineColumns ==
    {ONLY_AND_RENAMED[i][1] : i \in 1..Len(ONLY_AND_RENAMED)}
       \cup {"timestamp_utc", "index_price"}

\* Row n of the frames: a cell tells its column and its row; some are null.
PipelineRow(n) ==
    [c \in PipelineColumns |-> IF c = "rho" \/ (n = 2 /\ c = "iv") THEN None
                               ELSE Some(<< c, n >>)]

\* The columns that may be missing: the first and the last of the mapping,
\* renamed ones, one kept as named, and one that is not required.
MayMiss == {"slot_time_utc", "expiry_utc", "bid", "spread_rel", "iv_flag_outlier",
            "timestamp_utc"}

RenameArgs ==
    {[kind |-> "rename",
      df |-> Frame(PipelineColumns \ miss,
                   [i \in 1..Len(ns) |->
                       [c \in PipelineColumns \ miss |-> PipelineRow(ns[i])[c]]])] :
        miss \in {m \in SUBSET MayMiss : Cardinality(m) <= MaxMissing},
        ns \in SeqsUpTo({1, 2}, MaxRowsQC)}

MaxMoneyRows == 2

MoneyColumns == {"strike", "index_price", "underlying_price"}
MoneyCells == {None, Some(-4), Some(-2), Some(0), Some(2), Some(4)}
MoneyRows ==
    {[c \in MoneyColumns |-> IF c = "strike" THEN k
                             ELSE IF c = "underlying_price" THEN f ELSE Some(2)] :
        k \in MoneyCells, f \in MoneyCells}

MoneyArgs ==
    {[kind |-> "moneyness", df |-> Frame(MoneyColumns, rws)] :
        rws \in SeqsUpTo(MoneyRows, MaxMoneyRows)}
    \cup {[kind |-> "moneyness", df |-> DropCol(Frame(MoneyColumns, << r >>), c)] :
        r \in MoneyRows, c \in MoneyColumns}

QCArgs == SmileArgs \cup LimitArgs \cup RenameArgs \cup MoneyArgs

InitQC ==
    /\ ProgIdle
    /\ arg \in QCArgs
    /\ ret = Pending

CallBuildSmiles ==
    /\ mode = "idle"
    /\ ret = Pending
    /\ arg.kind = "smiles"
    /\ ret' = [fn |-> "build_smiles", out |-> build_smiles(arg.df)]
    /\ UNCHANGED << arg, progVars >>

CallGetQcLimits ==
    /\ mode = "idle"
    /\ ret = Pending
    /\ arg.kind = "limits"
    /\ ret' = [fn |-> "get_qc_limits",
               out |-> get_qc_limits(arg.config_path, arg.env, arg.fs)]
    /\ UNCHANGED << arg, progVars >>

CallFilterRename ==
    /\ mode = "idle"
    /\ ret = Pending
    /\ arg.kind = "rename"
    /\ ret' = [fn |-> "filter_rename_columns", out |-> filter_rename_columns(arg.df)]
    /\ UNCHANGED << arg, progVars >>

CallAddMoneyness ==
    /\ mode = "idle"
    /\ ret = Pending
    /\ arg.kind = "moneyness"
    /\ ret' = [fn |-> "add_moneyness", out |-> add_moneyness(arg.df)]
    /\ UNCHANGED << arg, progVars >>

NextQC == CallBuildSmiles \/ CallGetQcLimits \/ CallFilterRename \/ CallAddMoneyness

SpecQC == InitQC /\ [][NextQC]_vars

\* The cells of column c in the rows of df whose group key is key.
GroupCells(df, key, c) ==
    NonNull([i \in 1..Len(GroupRows(df, key)) |-> GroupRows(df, key)[i][c]])

\* C11: build_smiles returns one row for every distinct (underlying, expiry,
\* option type, strike) of the input and no other row; each numeric field of
\* the row times the number of the group's non-null values is their sum, and
\* the field is null when the group has no non-null value; an empty input
\* gives an empty output.
SmilesOneMeanRowPerGroup ==
    Returned("build_smiles") =>
       LET df == arg.df
           out == ret.out
       IN /\ NRows(df) = 0 => NRows(out) = 0
          /\ {GroupKey(out.rows[n]) : n \in 1..NRows(out)}
                = {GroupKey(df.rows[i]) : i \in 1..NRows(df)}
          /\ \A n, o \in 1..NRows(out) :
                GroupKey(out.rows[n]) = GroupKey(out.rows[o]) => n = o
          /\ \A n \in 1..NRows(out) : \A c \in DOMAIN SmileAggs :
                LET vals == GroupCells(df, GroupKey(out.rows[n]), SmileAggs[c]) IN
                IF Len(vals) = 0 THEN out.rows[n][c] = None
                ELSE /\ ~IsNone(out.rows[n][c])
                     /\ Val(out.rows[n][c]) * Len(vals) = SumSeq(vals)

\* C11 witness: one group with bid = [10, 12, null] has the mean bid 11, and
\* its iv, null in every row, is null.
SmilesMeanOfTenTwelveNullReached ==
    /\ Returned("build_smiles")
    /\ NRows(arg.df) = 3
    /\ [i \in 1..3 |-> arg.df.rows[i]["bid"]]
          = << Some(10 * SmileUnit), Some(12 * SmileUnit), None >>
    /\ NRows(ret.out) = 1
    /\ ret.out.rows[1]["bid"] = Some(11 * SmileUnit)
    /\ ret.out.rows[1]["iv"] = None

\* C11 witness of a group whose key is null: the rows of ETH-PERPETUAL, with
\* no expiry, strike and option type, are one group of their own.
SmilesNullKeyGroupReached ==
    /\ Returned("build_smiles")
    /\ NRows(arg.df) = 3
    /\ NRows(ret.out) = 2
    /\ ret.out.rows[2]["strike"] = None
    /\ ret.out.rows[2]["bid"] = Some(11 * SmileUnit)


\* What each file says of the limits, read by eye: the numeric fields of its
\* qc section.
FileFields ==
    [p \in DOMAIN FileText |->
        CASE p = "a.yml" -> [iv_min |-> 2000, iv_max |-> 400000]
          [] p = "e.yml" -> [iv_max |-> 300000]
          [] p = "qc.yml" -> [iv_max |-> 250000]
          [] p = "qc.yaml" -> EmptyDict]

\* The value of an override, when it is a number.
OverrideNumber(val) ==
    IF val = Some("0.05") THEN Some(5000)
    ELSE IF val = Some("2") THEN Some(200000)
    ELSE None

\* The source the limits are read from: the explicit path, the path of
\* QC_CONFIG, qc.yml, qc.yaml, the first of them that exists; or none.
ChosenSource ==
    LET given(p) == ~IsNone(p) /\ Val(p) # "" /\ Val(p) \in DOMAIN arg.fs IN
    IF given(arg.config_path) THEN arg.config_path
    ELSE IF given(arg.env["QC_CONFIG"]) THEN arg.env["QC_CONFIG"]
    ELSE IF "qc.yml" \in DOMAIN arg.fs THEN Some("qc.yml")
    ELSE IF "qc.yaml" \in DOMAIN arg.fs THEN Some("qc.yaml")
    ELSE None

ExpectedLimit(field, envName) ==
    IF ~IsNone(OverrideNumber(arg.env[envName])) THEN Val(OverrideNumber(arg.env[envName]))
    ELSE IF ~IsNone(ChosenSource) /\ field \in DOMAIN FileFields[Val(ChosenSource)]
         THEN FileFields[Val(ChosenSource)][field]
    ELSE QCLimits[field]

\* C12: each limit is the number of its environment variable when that is
\* set to a number; else the field of the first existing candidate (explicit
\* path, QC_CONFIG, qc.yml, qc.yaml) when that file has it; else the default.
\* No later candidate is read, and an override that is no number changes
\* nothing.
LimitsResolvedInOrder ==
    Returned("get_qc_limits") =>
       /\ DOMAIN ret.out = {"iv_min", "iv_max"}
       /\ ret.out.iv_min = ExpectedLimit("iv_min", "QC_IV_MIN")
       /\ ret.out.iv_max = ExpectedLimit("iv_max", "QC_IV_MAX")
       /\ (DOMAIN arg.fs = {} /\ \A v \in DOMAIN arg.env : IsNone(arg.env[v]))
             => ret.out = QCLimits

\* C12 witness: the explicit path does not exist, the file of QC_CONFIG does
\* and gives iv_max only, qc.yml exists and is not read; QC_IV_MIN is no
\* number, so iv_min is the default.
LimitsFromEnvPathReached ==
    /\ Returned("get_qc_limits")
    /\ arg.config_path = Some("a.yml")
    /\ DOMAIN arg.fs = {"e.yml", "qc.yml", "qc.yaml"}
    /\ arg.env["QC_CONFIG"] = Some("e.yml")
    /\ arg.env["QC_IV_MIN"] = Some("abc")
    /\ arg.env["QC_IV_MAX"] = None
    /\ ret.out = [iv_min |-> IvMinDefault, iv_max |-> 300000]

\* C12 witness of an override: the file gives iv_min 0.02, QC_IV_MIN 0.05.
LimitsOverriddenReached ==
    /\ Returned("get_qc_limits")
    /\ arg.config_path = Some("a.yml")
    /\ "a.yml" \in DOMAIN arg.fs
    /\ arg.env["QC_IV_MIN"] = Some("0.05")
    /\ arg.env["QC_IV_MAX"] = None
    /\ ret.out = [iv_min |-> 5000, iv_max |-> 400000]


\* The canonical columns, in order, and the column each is taken from.
CanonicalList ==
    << "timestamp", "underlying", "instrument_name", "expiry", "strike",
       "option_type", "bid", "ask", "mid", "iv", "delta", "gamma", "vega", "theta",
       "rho", "F", "S", "spread", "moneyness", "iv_flag_outlier" >>
TakenFrom(v) ==
    CASE v = "timestamp" -> "slot_time_utc"
      [] v = "expiry" -> "expiry_utc"
      [] v = "spread" -> "spread_rel"
      [] OTHER -> v

\* C13: filter_rename_columns returns if and only if the frame has every
\* source column of the canonical list; it then returns exactly the canonical
\* columns in their order with the rows of the input, cell for cell; with a
\* source column missing it raises and returns no frame.
CanonicalOrError ==
    Returned("filter_rename_columns") =>
       LET df == arg.df
           required == {TakenFrom(CanonicalList[i]) : i \in 1..Len(CanonicalList)}
       IN IF required \subseteq df.columns
          THEN /\ ~ret.out.raised
               /\ ret.out.value.order = CanonicalList
               /\ NRows(ret.out.value) = NRows(df)
               /\ \A n \in 1..NRows(df) :
                     /\ DOMAIN ret.out.value.rows[n]
                           = {CanonicalList[i] : i \in 1..Len(CanonicalList)}
                     /\ \A i \in 1..Len(CanonicalList) :
                           ret.out.value.rows[n][CanonicalList[i]]
                              = df.rows[n][TakenFrom(CanonicalList[i])]
          ELSE /\ ret.out.raised
               /\ "value" \notin DOMAIN ret.out

\* C13 witness: a frame of two rows with every column is projected.
CanonicalReturnedReached ==
    /\ Returned("filter_rename_columns")
    /\ arg.df.columns = PipelineColumns
    /\ NRows(arg.df) = 2
    /\ ~ret.out.raised
    /\ ret.out.value.rows[2]["timestamp"] = Some(<< "slot_time_utc", 2 >>)
    /\ "index_price" \notin DOMAIN ret.out.value.rows[2]

\* C13 witness of the failure: only the last source column is missing.
CanonicalFailedReached ==
    /\ Returned("filter_rename_columns")
    /\ arg.df.columns = PipelineColumns \ {"iv_flag_outlier"}
    /\ NRows(arg.df) = 2
    /\ ret.out.raised


\* log(k / f) for k, f > 0
LogOfRatio(k, f) == Some([t |-> "log", of |-> Fraction(k, f)])

BothPositive(r) ==
    /\ ~IsNone(r["strike"]) /\ Val(r["strike"]) > 0
    /\ ~IsNone(r["underlying_price"]) /\ Val(r["underlying_price"]) > 0

\* C15: add_moneyness never raises, and in a frame that has the strike and
\* the underlying price the moneyness of a row is log(strike / price) when
\* both are present and positive and null otherwise.
MoneynessLogOrNull ==
    Returned("add_moneyness") =>
       /\ ~ret.out.raised
       /\ {"strike", "underlying_price"} \subseteq arg.df.columns =>
             /\ "moneyness" \in ret.out.value.columns
             /\ \A i \in 1..NRows(arg.df) :
                   ret.out.value.rows[i]["moneyness"]
                      = IF BothPositive(arg.df.rows[i])
                        THEN LogOfRatio(Val(arg.df.rows[i]["strike"]),
                                        Val(arg.df.rows[i]["underlying_price"]))
                        ELSE None

\* C15, the part that holds: when add_moneyness returns a moneyness, it is
\* log(strike / price) for a positive pair and null when an operand is
\* missing or the two have opposite signs.
MoneynessOfPositiveOrMissing ==
    (Returned("add_moneyness") /\ ~ret.out.raised
       /\ "moneyness" \in ret.out.value.columns) =>
          \A i \in 1..NRows(arg.df) :
             LET k == arg.df.rows[i]["strike"]
                 f == arg.df.rows[i]["underlying_price"]
                 y == ret.out.value.rows[i]["moneyness"]
             IN /\ BothPositive(arg.df.rows[i]) => y = LogOfRatio(Val(k), Val(f))
                /\ (IsNone(k) \/ IsNone(f)) => y = None
                /\ (~IsNone(k) /\ ~IsNone(f) /\ Val(k) * Val(f) < 0) => y = None

\* C15: strike -4 and price -2 have the moneyness log(2), strike 0 has -inf.
MoneynessOfNegativesReached ==
    /\ Returned("add_moneyness")
    /\ ~ret.out.raised
    /\ NRows(arg.df) = 2
    /\ arg.df.rows[1]["strike"] = Some(-4)
    /\ arg.df.rows[1]["underlying_price"] = Some(-2)
    /\ ret.out.value.rows[1]["moneyness"] = LogOfRatio(2, 1)
    /\ arg.df.rows[2]["strike"] = Some(0)
    /\ arg.df.rows[2]["underlying_price"] = Some(2)
    /\ ret.out.value.rows[2]["moneyness"] = Some([t |-> "inf", sign |-> -1])

\* C15: a frame with index_price and no underlying_price makes it raise.
MoneynessRaisesReached ==
    /\ Returned("add_moneyness")
    /\ arg.df.columns = {"strike", "index_price"}
    /\ ret.out.raised


(***************************************************************************)
(* The collector: main, run_loop, snapshot_once, gather_order_books and its *)
(* workers, write_outputs.  One action is one stretch of a coroutine between*)
(* two awaits.  The remote API is the environment: a listing or a fetch     *)
(* returns or raises, and a write to disk succeeds or raises.               *)
(***************************************************************************)
MaxConcurrency == 2
MaxRetries == 2
MaxInstruments == 2
MaxCycles == 2

Currencies == << "BTC", "ETH" >>

\* What /public/get_instruments may return for a currency.
Listings(cur) ==
    IF cur = "BTC" THEN {<< "BTC-27OCT25-65000-C", "BTC-31FEB25-65000-C" >>}
    ELSE {<< "ETH-PERPETUAL" >>, << "ETH-27XYZ25-ABC-C" >>}

\* What /public/ticker returns when it returns.  (make_row's branches on
\* the null cells of a response are exercised by the frames of SpecClean.)
Tickers == {Ticker(Some(10), Some(12), Some(100000))}

\* The interval of the deployed configuration, and one that does not divide
\* the hour.
Intervals == {7, 30}

Configs == [interval_minutes : Intervals,
            currencies : {Currencies},
            max_instruments : 1..MaxInstruments,
            max_concurrency : 1..MaxConcurrency,
            max_retries : 1..MaxRetries]

\* The cycles of run_loop are explored under the smallest configuration of
\* the batch (one instrument per currency, one permit, one attempt) with
\* every interval; --once, which makes no use of the interval, under every
\* configuration of the batch.
LoopConfigs == {c \in Configs : /\ c.max_instruments = 1
                                /\ c.max_concurrency = 1
                                /\ c.max_retries = 1}
OnceConfigs == {c \in Configs : c.interval_minutes = 30}

\* When the process starts: within a minute before a half hour, or on a
\* whole minute near the end of an hour.
StartTimes == {29 * TicksPerMinute + 1, 58 * TicksPerMinute}
\* How long the fetches of one cycle may take: no time, or over an interval.
BatchDurations == {0, 31 * TicksPerMinute}
\* How late asyncio.sleep may return.
WakeDelays == {0, 1}

NInstr == Len(instruments)

Init ==
    /\ mode \in {"once", "loop"}
    /\ cfg \in IF mode = "once" THEN OnceConfigs ELSE LoopConfigs
    /\ pc = "main"
    /\ now \in StartTimes
    /\ next_slot = 0
    /\ cycle = 0
    /\ curIdx = 0
    /\ listFailed = {}
    /\ listed = << >>
    /\ instruments = << >>
    /\ sem = 0
    /\ ntasks = 0
    /\ wpc = << >>
    /\ retry_count = << >>
    /\ attempts = << >>
    /\ rows = << >>
    /\ slot_time = 0
    /\ df_raw = Frame({}, << >>)
    /\ written = {}
    /\ arg = << >>
    /\ ret = Pending

batchVars == << sem, ntasks, wpc, retry_count, attempts, rows, slot_time >>
listVars == << curIdx, listFailed, listed, instruments >>

\* The entry of snapshot_once: the client is opened, instruments = [].
EnterSnapshot ==
    /\ curIdx' = 1
    /\ listFailed' = {}
    /\ listed' = [k \in 1..Len(cfg.currencies) |-> [status |-> "pending"]]
    /\ instruments' = << >>
    /\ sem' = 0
    /\ ntasks' = 0
    /\ wpc' = << >>
    /\ retry_count' = << >>
    /\ attempts' = << >>
    /\ rows' = << >>
    /\ slot_time' = 0
    /\ df_raw' = Frame({}, << >>)

\* main(): --once runs snapshot_once, otherwise run_loop.
Main ==
    /\ pc = "main"
    /\ IF mode = "once"
       THEN /\ pc' = "list"
            /\ cycle' = 1
            /\ EnterSnapshot
       ELSE /\ pc' = "loop_top"
            /\ UNCHANGED << cycle, listVars, batchVars, df_raw >>
    /\ UNCHANGED << mode, cfg, now, next_slot, written, fnVars >>

\* run_loop: start = utc_now(); next_slot = align_next_slot(...); the sleep.
\* (The loop is cut after MaxCycles cycles.)
LoopTop ==
    /\ pc = "loop_top"
    /\ cycle < MaxCycles
    /\ next_slot' = align_next_slot(now, cfg.interval_minutes)
    /\ pc' = IF next_slot' - now > 0 THEN "sleeping" ELSE "snapshot"
    /\ UNCHANGED << mode, cfg, now, cycle, listVars, batchVars, df_raw, written, fnVars >>

\* asyncio.sleep(sleep_s) returns, no earlier than asked.
LoopWake ==
    /\ pc = "sleeping"
    /\ \E late \in WakeDelays : now' = next_slot + late
    /\ pc' = "snapshot"
    /\ UNCHANGED << mode, cfg, next_slot, cycle, listVars, batchVars, df_raw, written,
                    fnVars >>

\* run_loop: t0 = utc_now(); df = await snapshot_once(cfg)
LoopSnapshot ==
    /\ pc = "snapshot"
    /\ pc' = "list"
    /\ cycle' = cycle + 1
    /\ EnterSnapshot
    /\ UNCHANGED << mode, cfg, now, next_slot, written, fnVars >>

\* res[: cfg.max_instruments]
Take(res, n) == SubSeq(res, 1, IF Len(res) < n THEN Len(res) ELSE n)

AfterListing == IF curIdx = Len(cfg.currencies) THEN "batch" ELSE "list"

\* snapshot_once: fetch_instruments returns for the currency in turn.
ListOk ==
    /\ pc = "list"
    /\ curIdx <= Len(cfg.currencies)
    /\ \E res \in Listings(cfg.currencies[curIdx]) :
          /\ listed' = [listed EXCEPT ![curIdx] = [status |-> "ok", res |-> res]]
          /\ instruments' = instruments \o
                [j \in 1..Len(Take(res, cfg.max_instruments)) |->
                    << cfg.currencies[curIdx], res[j] >>]
    /\ curIdx' = curIdx + 1
    /\ pc' = AfterListing
    /\ UNCHANGED << mode, cfg, now, next_slot, cycle, listFailed, batchVars, df_raw,
                    written, fnVars >>

\* ListFail with the failure ending the for loop over the currencies.
ListFailEndsListing ==
    /\ pc = "list"
    /\ curIdx <= Len(cfg.currencies)
    /\ listed' = [listed EXCEPT ![curIdx] = [status |-> "failed"]]
    /\ listFailed' = listFailed \cup {cfg.currencies[curIdx]}
    /\ curIdx' = curIdx + 1
    /\ pc' = "batch"
    /\ UNCHANGED << mode, cfg, now, next_slot, cycle, instruments, batchVars, df_raw,
                    written, fnVars >>

\* snapshot_once: fetch_instruments raises; the except clause sets res = [].
ListFail ==
    /\ pc = "list"
    /\ curIdx <= Len(cfg.currencies)
    /\ listed' = [listed EXCEPT ![curIdx] = [status |-> "failed"]]
    /\ listFailed' = listFailed \cup {cfg.currencies[curIdx]}
    /\ curIdx' = curIdx + 1
    /\ pc' = AfterListing
    /\ UNCHANGED << mode, cfg, now, next_slot, cycle, instruments, batchVars, df_raw,
                    written, fnVars >>

\* gather_order_books: the semaphore, rows, slot_time.
StartBatch ==
    /\ pc = "batch"
    /\ sem' = cfg.max_concurrency
    /\ rows' = << >>
    /\ slot_time' = FloorMinute(now)
    /\ ntasks' = 0
    /\ wpc' = [i \in 1..NInstr |-> "none"]
    /\ retry_count' = [i \in 1..NInstr |-> 0]
    /\ attempts' = [i \in 1..NInstr |-> << >>]
    /\ pc' = "dispatch"
    /\ UNCHANGED << mode, cfg, now, next_slot, cycle, listVars, df_raw, written, fnVars >>

\* Dispatch held back until the tasks created before are done.
DispatchAfterDone ==
    /\ pc = "dispatch"
    /\ ntasks < NInstr
    /\ \A i \in 1..ntasks : wpc[i] = "done"
    /\ ntasks' = ntasks + 1
    /\ wpc' = [wpc EXCEPT ![ntasks + 1] = "acquire"]
    /\ pc' = "pace"
    /\ UNCHANGED << mode, cfg, now, next_slot, cycle, listVars, sem, retry_count,
                    attempts, rows, slot_time, df_raw, written, fnVars >>

\* The for loop: create_task(worker(under, inst)) for the next instrument of
\* the list, then the pacing sleep begins.
Dispatch ==
    /\ pc = "dispatch"
    /\ ntasks < NInstr
    /\ ntasks' = ntasks + 1
    /\ wpc' = [wpc EXCEPT ![ntasks + 1] = "acquire"]
    /\ pc' = "pace"
    /\ UNCHANGED << mode, cfg, now, next_slot, cycle, listVars, sem, retry_count,
                    attempts, rows, slot_time, df_raw, written, fnVars >>

\* await asyncio.sleep(delay) returns and the for loop goes on.
PaceWake ==
    /\ pc = "pace"
    /\ pc' = "dispatch"
    /\ UNCHANGED << mode, cfg, now, next_slot, cycle, listVars, batchVars, df_raw,
                    written, fnVars >>

\* The loop is over: await asyncio.gather(*tasks).
AwaitGather ==
    /\ pc = "dispatch"
    /\ ntasks = NInstr
    /\ pc' = "gather"
    /\ UNCHANGED << mode, cfg, now, next_slot, cycle, listVars, batchVars, df_raw,
                    written, fnVars >>

\* while retry_count < cfg.max_retries: the next fetch, or the end of the
\* worker, which leaves "async with sem" and releases the permit.
WorkerLoop(i, rc) ==
    IF rc < cfg.max_retries
    THEN /\ wpc' = [wpc EXCEPT ![i] = "fetching"]
         /\ sem' = sem
    ELSE /\ wpc' = [wpc EXCEPT ![i] = "done"]
         /\ sem' = sem + 1

\* WAcquire without the wait for a free permit.
WAcquireNoWait(i) ==
    /\ wpc[i] = "acquire"
    /\ retry_count' = [retry_count EXCEPT ![i] = 0]
    /\ IF 0 < cfg.max_retries
       THEN /\ wpc' = [wpc EXCEPT ![i] = "fetching"]
            /\ sem' = sem - 1
       ELSE /\ wpc' = [wpc EXCEPT ![i] = "done"]
            /\ sem' = sem
    /\ UNCHANGED << mode, cfg, pc, now, next_slot, cycle, listVars, ntasks, attempts,
                    rows, slot_time, df_raw, written, fnVars >>

\* worker: async with sem (a permit is free), retry_count = 0, first fetch.
WAcquire(i) ==
    /\ wpc[i] = "acquire"
    /\ sem > 0
    /\ retry_count' = [retry_count EXCEPT ![i] = 0]
    /\ IF 0 < cfg.max_retries
       THEN /\ wpc' = [wpc EXCEPT ![i] = "fetching"]
            /\ sem' = sem - 1
       ELSE /\ wpc' = [wpc EXCEPT ![i] = "done"]
            /\ sem' = sem
    /\ UNCHANGED << mode, cfg, pc, now, next_slot, cycle, listVars, ntasks, attempts,
                    rows, slot_time, df_raw, written, fnVars >>

\* worker: fetch_order_book returns; make_row appends the row and the loop
\* breaks, or make_row raises and the except clause counts a retry.
WFetchReturn(i) ==
    /\ wpc[i] = "fetching"
    /\ attempts' = [attempts EXCEPT ![i] = Append(@, "ok")]
    /\ \E ob \in Tickers :
          LET r == make_row(slot_time, instruments[i][1], instruments[i][2], ob, now) IN
          IF r.raised
          THEN /\ retry_count' = [retry_count EXCEPT ![i] = @ + 1]
               /\ wpc' = [wpc EXCEPT ![i] = "backoff"]
               /\ UNCHANGED << rows, sem >>
          ELSE /\ rows' = Append(rows, r.value)
               /\ wpc' = [wpc EXCEPT ![i] = "done"]
               /\ sem' = sem + 1
               /\ UNCHANGED retry_count
    /\ UNCHANGED << mode, cfg, pc, now, next_slot, cycle, listVars, ntasks, slot_time,
                    df_raw, written, fnVars >>

\* worker: fetch_order_book raises; retry_count += 1 and the retry sleep.
WFetchRaise(i) ==
    /\ wpc[i] = "fetching"
    /\ attempts' = [attempts EXCEPT ![i] = Append(@, "raised")]
    /\ retry_count' = [retry_count EXCEPT ![i] = @ + 1]
    /\ wpc' = [wpc EXCEPT ![i] = "backoff"]
    /\ UNCHANGED << mode, cfg, pc, now, next_slot, cycle, listVars, sem, ntasks, rows,
                    slot_time, df_raw, written, fnVars >>

\* worker: the retry sleep returns and the while condition is tested.
WBackoffWake(i) ==
    /\ wpc[i] = "backoff"
    /\ WorkerLoop(i, retry_count[i])
    /\ UNCHANGED << mode, cfg, pc, now, next_slot, cycle, listVars, ntasks, retry_count,
                    attempts, rows, slot_time, df_raw, written, fnVars >>

\* snapshot_once after the batch: pd.DataFrame() when there is no row.
SnapshotFrame(rws) == IF Len(rws) = 0 THEN Frame({}, << >>) ELSE Frame(RowColumns, rws)

\* run_loop: df["slot_time_utc"] = next_slot, unless df is empty.
StampSlot(f, slot) ==
    IF NRows(f) = 0 THEN f
    ELSE SetCol(f, "slot_time_utc", [i \in 1..NRows(f) |-> Some(slot)])

\* gather returns: every task is done; snapshot_once returns its frame to
\* main or to run_loop, which stamps the slot.
BatchReturn ==
    /\ pc = "gather"
    /\ \A i \in 1..NInstr : wpc[i] = "done"
    /\ \E d \in BatchDurations : now' = now + d
    /\ df_raw' = IF mode = "loop" THEN StampSlot(SnapshotFrame(rows), next_slot)
                 ELSE SnapshotFrame(rows)
    /\ pc' = "write"
    /\ UNCHANGED << mode, cfg, next_slot, cycle, listVars, batchVars, written, fnVars >>

Underlyings(f) == {Val(f.rows[i]["underlying"]) : i \in 1..NRows(f)}

\* The raw files of write_outputs: one per underlying, named by the slot of
\* the first row.
RawFiles(f) ==
    {[slot |-> Val(f.rows[1]["slot_time_utc"]), underlying |-> u] :
        u \in Underlyings(f)}

AfterWrite == IF mode = "loop" THEN "loop_top" ELSE "exit"

\* write_outputs returns: nothing to write, or every file written.
WriteOk ==
    /\ pc = "write"
    /\ written' = IF NRows(df_raw) = 0 THEN written ELSE written \cup RawFiles(df_raw)
    /\ pc' = AfterWrite
    /\ UNCHANGED << mode, cfg, now, next_slot, cycle, listVars, batchVars, df_raw,
                    fnVars >>

\* write_outputs raises (mkdir, write_parquet): nothing catches it in main
\* or in run_loop, and the process ends.
WriteRaise ==
    /\ pc = "write"
    /\ NRows(df_raw) > 0
    /\ pc' = "crashed"
    /\ UNCHANGED << mode, cfg, now, next_slot, cycle, listVars, batchVars, df_raw,
                    written, fnVars >>

Next ==
    \/ Main
    \/ LoopTop
    \/ LoopWake
    \/ LoopSnapshot
    \/ ListOk
    \/ ListFail
    \/ StartBatch
    \/ Dispatch
    \/ PaceWake
    \/ AwaitGather
    \/ \E i \in 1..ntasks : WAcquire(i)
    \/ \E i \in 1..ntasks : WFetchReturn(i)
    \/ \E i \in 1..ntasks : WFetchRaise(i)
    \/ \E i \in 1..ntasks : WBackoffWake(i)
    \/ BatchReturn
    \/ WriteOk
    \/ WriteRaise

Spec == Init /\ [][Next]_vars

(***************************************************************************)
(* Properties of the collector.                                             *)
(***************************************************************************)
\* The workers inside "async with sem": fetching, or in the retry sleep.
InFlight == {i \in 1..ntasks : wpc[i] \in {"fetching", "backoff"}}

\* The rows of the batch for instrument i.
RowsOf(i) ==
    {j \in 1..Len(rows) : rows[j]["instrument_name"] = Some(instruments[i][2])}

\* The outcomes of the fetches of one instrument: n failures, then...
Failures(n) == [k \in 1..n |-> "raised"]

\* The identifier is CUR-DMMMYY-STRIKE-C|P with a real date and a number.
KnownGrammar(name) ==
    LET parts == Split(name, "-") IN
    /\ Len(parts) = 4
    /\ ~parse_expiry_code(parts[2]).raised
    /\ ~IsNone(parse_expiry_code(parts[2]).value)
    /\ ~PyFloat(parts[3]).raised
    /\ parts[4] \in {"C", "P"}

\* C1: during a batch, under every interleaving of the workers, at most
\* max_concurrency instruments are inside the limiter, and the permits left
\* are exactly the ones not held.
FetchesInFlightAtMostC ==
    /\ Cardinality(InFlight) <= cfg.max_concurrency
    /\ pc \in {"dispatch", "pace", "gather"} =>
          sem + Cardinality(InFlight) = cfg.max_concurrency

\* C1 witness: the limiter is full and a dispatched worker waits for a permit.
LimiterFullReached ==
    /\ pc \in {"dispatch", "pace", "gather"}
    /\ Cardinality(InFlight) = cfg.max_concurrency
    /\ \E i \in 1..ntasks : wpc[i] = "acquire"
    /\ \E i \in InFlight : wpc[i] = "backoff"

\* C2: when the batch has returned, an instrument whose fetch failed
\* max_retries - 1 times and then succeeded has exactly one row, and an
\* instrument whose fetch failed max_retries times has none.
RetryThenSuccessGivesOneRow ==
    pc = "write" =>
       \A i \in 1..NInstr :
          /\ attempts[i] = Append(Failures(cfg.max_retries - 1), "ok")
                => Cardinality(RowsOf(i)) = 1
          /\ attempts[i] = Failures(cfg.max_retries)
                => Cardinality(RowsOf(i)) = 0

\* C2, the part that holds: max_retries failed fetches give no row and the
\* batch still returns, with a row for every well-formed instrument whose
\* fetch succeeded.
ExhaustedRetriesGiveNoRow ==
    pc = "write" =>
       \A i \in 1..NInstr :
          /\ attempts[i] = Failures(cfg.max_retries)
                => Cardinality(RowsOf(i)) = 0
          /\ (KnownGrammar(instruments[i][2])
                /\ attempts[i] = Append(Failures(cfg.max_retries - 1), "ok"))
                => Cardinality(RowsOf(i)) = 1

\* C2: a fetch fails once and then succeeds, and the batch returns no row
\* for the instrument.
RetryThenSuccessNoRowReached ==
    /\ pc = "write"
    /\ cfg.max_retries = 2
    /\ \E i \in 1..NInstr :
          /\ attempts[i] = << "raised", "ok" >>
          /\ Cardinality(RowsOf(i)) = 0
    /\ \E i \in 1..NInstr :
          /\ attempts[i] = << "raised", "ok" >>
          /\ Cardinality(RowsOf(i)) = 1

\* C3: in loop mode no failure inside a cycle ends run_loop.
LoopSurvivesCycleFailure == mode = "loop" => pc # "crashed"

\* C3: write_outputs raised in the first cycle of the loop, which has ended.
LoopCrashedReached ==
    /\ mode = "loop"
    /\ pc = "crashed"
    /\ cycle = 1
    /\ NRows(df_raw) > 0

\* C5: a currency whose listing failed contributes no instrument; when the
\* listing is over every currency has been listed, the ones that did not fail
\* contribute the first max_instruments of their listing; and when the batch
\* has returned every instrument has been fetched.
ListingFailureIsLocal ==
    /\ \A k \in 1..Len(listed) :
          listed[k].status = "failed" =>
             \A i \in 1..NInstr : instruments[i][1] # cfg.currencies[k]
    /\ pc \in {"batch", "dispatch", "pace", "gather", "write"} =>
          \A k \in 1..Len(cfg.currencies) :
             /\ listed[k].status # "pending"
             /\ listed[k].status = "ok" =>
                   \A j \in 1..Len(Take(listed[k].res, cfg.max_instruments)) :
                      \E i \in 1..NInstr :
                         instruments[i] = << cfg.currencies[k], listed[k].res[j] >>
    /\ pc = "write" => \A i \in 1..NInstr : Len(attempts[i]) >= 1

\* C5 witness: the listing of BTC failed and the rows of ETH are returned.
ListingFailedOthersFetchedReached ==
    /\ pc = "write"
    /\ listed[1].status = "failed"
    /\ listed[2].status = "ok"
    /\ NInstr = 1
    /\ instruments[1][1] = "ETH"
    /\ NRows(df_raw) = 1

\* C7: when the batch has returned, an instrument that was fetched with
\* success and whose identifier is not of the known grammar has exactly one
\* row, with null expiry, strike and option type.
UngrammaticalStillOneNullRow ==
    pc = "write" =>
       \A i \in 1..NInstr :
          ("ok" \in {attempts[i][k] : k \in 1..Len(attempts[i])}
             /\ ~KnownGrammar(instruments[i][2])) =>
                /\ Cardinality(RowsOf(i)) = 1
                /\ \A j \in RowsOf(i) :
                      /\ rows[j]["expiry_utc"] = None
                      /\ rows[j]["strike"] = None
                      /\ rows[j]["option_type"] = None

\* C7, the part that holds: an identifier with fewer than four parts gives
\* one row with the three fields null.
ShortNameStillOneNullRow ==
    pc = "write" =>
       \A i \in 1..NInstr :
          ("ok" \in {attempts[i][k] : k \in 1..Len(attempts[i])}
             /\ Len(Split(instruments[i][2], "-")) < 4) =>
                /\ Cardinality(RowsOf(i)) = 1
                /\ \A j \in RowsOf(i) :
                      /\ rows[j]["expiry_utc"] = None
                      /\ rows[j]["strike"] = None
                      /\ rows[j]["option_type"] = None

\* C7: every fetch of BTC-31FEB25-65000-C succeeded and it has no row.
FetchedButDroppedReached ==
    /\ pc = "write"
    /\ \E i \in 1..NInstr :
          /\ instruments[i][2] = "BTC-31FEB25-65000-C"
          /\ attempts[i] = [k \in 1..cfg.max_retries |-> "ok"]
          /\ Cardinality(RowsOf(i)) = 0

\* C14: the tasks created are the first ntasks instruments of the list, in
\* the list's order; the for loop, when it holds the next instrument, can
\* dispatch it whatever the earlier workers are doing; and after a dispatch
\* the next one has to wait for the pacing sleep to return.
DispatchInOrderPaced ==
    /\ \A i \in 1..Len(wpc) : (wpc[i] # "none") <=> (i <= ntasks)
    /\ (pc = "dispatch" /\ ntasks < NInstr) => ENABLED Dispatch
    /\ pc = "pace" => (~ENABLED Dispatch /\ ENABLED PaceWake)

\* C14 witness: the second instrument is dispatched while the fetch of the
\* first is in flight.
DispatchedWhileEarlierInFlightReached ==
    /\ pc = "pace"
    /\ ntasks = 2
    /\ NInstr > 2
    /\ wpc[1] = "fetching"
    /\ wpc[2] = "acquire"

\* C14: the second instrument is done, with its row, before the first.
LaterCompletesFirstReached ==
    /\ ntasks >= 2
    /\ wpc[1] \in {"acquire", "fetching", "backoff"}
    /\ wpc[2] = "done"
    /\ Len(rows) = 1
    /\ rows[1]["instrument_name"] = Some(instruments[2][2])

\* C14: the first instrument is done, with its row, before the second.
EarlierCompletesFirstReached ==
    /\ ntasks >= 2
    /\ wpc[2] \in {"acquire", "fetching", "backoff"}
    /\ wpc[1] = "done"
    /\ Len(rows) = 1
    /\ rows[1]["instrument_name"] = Some(instruments[1][2])

\* C16: a worker makes at most max_retries fetches and none after a fetch
\* that succeeded; a worker that is done holds no permit, and when the batch
\* has returned every worker is done and every permit is free.
WorkersStopAndFreePermits ==
    /\ \A i \in 1..Len(attempts) :
          /\ Len(attempts[i]) <= cfg.max_retries
          /\ \A k \in 1..(Len(attempts[i]) - 1) : attempts[i][k] # "ok"
    /\ pc = "write" =>
          /\ \A i \in 1..NInstr : wpc[i] = "done"
          /\ sem = cfg.max_concurrency

\* C16, the part that holds: at most max_retries fetches for a worker, none
\* after a success for an identifier of the known grammar, and all permits
\* free when the batch has returned.
WorkersBoundedPermitsFree ==
    /\ \A i \in 1..Len(attempts) :
          /\ Len(attempts[i]) <= cfg.max_retries
          /\ KnownGrammar(instruments[i][2]) =>
                \A k \in 1..(Len(attempts[i]) - 1) : attempts[i][k] # "ok"
    /\ pc = "write" =>
          /\ \A i \in 1..NInstr : wpc[i] = "done"
          /\ sem = cfg.max_concurrency

\* The steps a worker has left at most, and the steps of the dispatch loop.
WorkerSteps(i) ==
    CASE wpc[i] = "none" -> 2 * cfg.max_retries + 2
      [] wpc[i] = "acquire" -> 2 * cfg.max_retries + 1
      [] wpc[i] = "fetching" -> 2 * (cfg.max_retries - retry_count[i])
      [] wpc[i] = "backoff" -> 2 * (cfg.max_retries - retry_count[i]) + 1
      [] wpc[i] = "done" -> 0
LoopSteps ==
    CASE pc = "dispatch" -> 2 * (NInstr - ntasks) + 2
      [] pc = "pace" -> 2 * (NInstr - ntasks) + 3
      [] pc = "gather" -> 1
      [] OTHER -> 0
BatchSteps == LoopSteps + SumSeq([i \in 1..Len(wpc) |-> WorkerSteps(i)])

\* C16, the part that holds: a worker that waits for a permit while none
\* is free waits for a worker in flight, a fetch in flight returns or fails,
\* and the gather waits only for workers that can go on; and ...
BatchNeverStuck ==
    pc \in {"dispatch", "pace", "gather"} =>
       /\ BatchSteps > 0
       /\ \A i \in 1..ntasks : (wpc[i] = "acquire" /\ sem = 0) => InFlight # {}
       /\ \A i \in InFlight : ENABLED WFetchRaise(i) \/ ENABLED WBackoffWake(i)
       /\ pc = "gather" =>
             \/ \A i \in 1..NInstr : wpc[i] = "done"
             \/ InFlight # {}
             \/ \E i \in 1..ntasks : ENABLED WAcquire(i)

\* ... every step of the batch brings its end nearer, so the batch returns.
BatchStepsDecrease ==
    [][(pc \in {"dispatch", "pace", "gather"}) => (BatchSteps > BatchSteps')]_vars

\* C16: the first fetch of BTC-31FEB25-65000-C succeeded and the worker has
\* made a second one.
FetchedAgainAfterSuccessReached ==
    \E i \in 1..ntasks :
       /\ instruments[i][2] = "BTC-31FEB25-65000-C"
       /\ Len(attempts[i]) = 2
       /\ attempts[i][1] = "ok"

\* Where run_loop stands inside a cycle, from the wake to write_outputs.
InCycle == pc \in {"snapshot", "list", "batch", "dispatch", "pace", "gather", "write"}

\* C17: in loop mode the slot of a cycle is a boundary of the interval grid
\* (a whole minute whose minute-of-hour is a multiple of the interval); the
\* cycle does not start before it; it is later than the slot of every file
\* written by an earlier cycle; and every row the cycle hands to
\* write_outputs carries it.
SlotsAlignedIncreasing ==
    (mode = "loop" /\ (InCycle \/ pc = "sleeping")) =>
       /\ next_slot % TicksPerMinute = 0
       /\ MinuteOfHour(next_slot) % cfg.interval_minutes = 0
       /\ InCycle => now >= next_slot
       /\ \A w \in written : w.slot < next_slot
       /\ pc = "write" =>
             \A i \in 1..NRows(df_raw) :
                df_raw.rows[i]["slot_time_utc"] = Some(next_slot)

\* C17, the part that holds: the slot is a whole minute, the cycle does not
\* start before it, earlier files have earlier slots, the rows carry it, ...
SlotsIncreasing ==
    (mode = "loop" /\ (InCycle \/ pc = "sleeping")) =>
       /\ next_slot % TicksPerMinute = 0
       /\ InCycle => now >= next_slot
       /\ \A w \in written : w.slot < next_slot
       /\ pc = "write" =>
             \A i \in 1..NRows(df_raw) :
                df_raw.rows[i]["slot_time_utc"] = Some(next_slot)

\* ... the slot changes only at the top of the loop, to a later instant that
\* is after the clock and at most an interval after it (the boundaries a
\* cycle overran are passed over), and the files of a cycle are named by it.
SlotsStepForward ==
    [][mode = "loop" =>
         /\ (next_slot' # next_slot) =>
               /\ pc = "loop_top"
               /\ next_slot' > next_slot
               /\ next_slot' > now
               /\ next_slot' <= now + cfg.interval_minutes * TicksPerMinute
         /\ (cycle >= 1 /\ pc = "loop_top" /\ pc' # "loop_top") => next_slot' # next_slot
         /\ \A w \in written' \ written : w.slot = next_slot]_vars

\* C17: with an interval of 7 minutes and a start at 00:58 the first cycle
\* has the slot 01:03 and hands a row to write_outputs.
SlotOffGridReached ==
    /\ mode = "loop"
    /\ pc = "write"
    /\ cfg.interval_minutes = 7
    /\ next_slot = 63 * TicksPerMinute
    /\ NRows(df_raw) > 0

\* C17: a cycle that overran its interval is followed by one cycle, on the
\* first boundary after the clock.
SlotAfterOverrunReached ==
    /\ mode = "loop"
    /\ cycle = 2
    /\ pc = "write"
    /\ cfg.interval_minutes = 30
    /\ next_slot = 90 * TicksPerMinute
    /\ written # {}
    /\ \A w \in written : w.slot = 30 * TicksPerMinute

=============================================================================
